---- MODULE Spec2Model ----
(***************************************************************************)
(* Model of the persistent DDS cache (aopipeline/dynamic_dds_cache.py) and *)
(* of the disk budget manager (aopipeline/disk_budget_manager.py).         *)
(*                                                                         *)
(* Files hold byte strings (sequences of 0..255).  The DDS layout follows  *)
(* pydds.DDS as mirrored by the tests' MockDDS; zstandard is an external   *)
(* library and is modelled by a lossless run-length codec with the zstd    *)
(* frame magic, so that a raw file never decodes as a frame and a payload  *)
(* without runs does not shrink.                                           *)
(***************************************************************************)
EXTENDS Integers, Sequences, FiniteSets, TLC

\* ------------------------------------------------------------------------
\* Bounds of the model
\* ------------------------------------------------------------------------

\* the logical clock (time.time()) stops the sequential traces
MaxClock == 3

\* ------------------------------------------------------------------------
\* Program constants
\* ------------------------------------------------------------------------

HeaderLen == 128

DDM_VERSION == 3

\* zoom levels used by the traces; the tile is 4 x 4 pixels at zoom 15 and
\* doubles with every level (the tests: 4096 at 16, 8192 at 17, 2048 at 15)
Zooms == {15, 16, 17}

Rows == {21728, 21729}

Formats == {"BC1", "BC3"}

Compressors == {"ISPC", "STB"}

CompressionModes == {"none", "zstd"}

Min(a, b) == IF a < b THEN a ELSE b

Max(a, b) == IF a > b THEN a ELSE b

RECURSIVE Pow2(_)
Pow2(n) == IF n <= 0 THEN 1 ELSE 2 * Pow2(n - 1)

Fill(n, v) == [i \in 1..n |-> v]

\* Python slice b[a:e] (0-based, clipped to the length)
Slice(b, a, e) ==
    LET lo == Min(a, Len(b))
        hi == Min(e, Len(b))
    IN  IF hi <= lo THEN <<>> ELSE SubSeq(b, lo + 1, hi)

\* Python slice assignment buf[a:a+Len(src)] = src for a range inside buf
Splice(buf, a, src) ==
    [i \in 1..Len(buf) |->
        IF i > a /\ i <= a + Len(src) THEN src[i - a] ELSE buf[i]]

\* ------------------------------------------------------------------------
\* DDS layout descriptor (pydds.DDS)
\* ------------------------------------------------------------------------

BlockSize(fmt) == IF fmt = "BC1" THEN 8 ELSE 16

RECURSIVE MipmapList(_, _, _, _, _)
MipmapList(w, h, bs, curbytes, idx) ==
    IF w >= 1 /\ h >= 1
    THEN LET len == Max(1, (w * h) \div 16) * bs
         IN  <<[idx |-> idx, startpos |-> curbytes, length |-> len,
                endpos |-> curbytes + len]>>
             \o MipmapList(w \div 2, h \div 2, bs, curbytes + len, idx + 1)
    ELSE <<>>

DDSHeader == <<68, 68, 83, 32>> \o Fill(HeaderLen - 4, 0)

DDS(width, height, fmt) ==
    LET mms == MipmapList(width, height, BlockSize(fmt), HeaderLen, 0)
    IN  [width |-> width, height |-> height, dxt_format |-> fmt,
         blocksize |-> BlockSize(fmt),
         mipMapCount |-> Len(mms),
         mipmap_list |-> mms,
         total_size |-> IF mms = <<>> THEN HeaderLen ELSE mms[Len(mms)].endpos,
         header |-> DDSHeader]

\* ------------------------------------------------------------------------
\* Disk compression (zstandard)
\* ------------------------------------------------------------------------

ZstdMagic == <<40, 181, 47, 253>>

\* run-length pairs <<value, count>> of b[lo..hi], count <= 255
RECURSIVE RleRange(_, _, _)
RleRange(b, lo, hi) ==
    IF hi < lo THEN <<>>
    ELSE IF hi - lo + 1 <= 255 /\ \A i \in lo..hi : b[i] = b[lo]
    THEN <<b[lo], hi - lo + 1>>
    ELSE LET mid   == (lo + hi) \div 2
             left  == RleRange(b, lo, mid)
             right == RleRange(b, mid + 1, hi)
             nl    == Len(left)
         IN  IF left[nl - 1] = right[1] /\ left[nl] + right[2] <= 255
             THEN SubSeq(left, 1, nl - 1) \o <<left[nl] + right[2]>>
                  \o SubSeq(right, 3, Len(right))
             ELSE left \o right

\* the bytes that pairs lo..hi of d stand for
RECURSIVE UnRleRange(_, _, _)
UnRleRange(d, lo, hi) ==
    IF hi < lo THEN <<>>
    ELSE IF lo = hi THEN Fill(d[2 * lo + 4], d[2 * lo + 3])
    ELSE LET mid == (lo + hi) \div 2
         IN  UnRleRange(d, lo, mid) \o UnRleRange(d, mid + 1, hi)

RleFrom(b, i) == RleRange(b, i, Len(b))

UnRle(d, i) == UnRleRange(d, 1, (Len(d) - 4) \div 2)

ZstdCompress(data) == ZstdMagic \o RleFrom(data, 1)

\* [ok, data]: ok = FALSE stands for the exception zstandard raises
ZstdDecompress(data) ==
    IF Len(data) >= 4 /\ SubSeq(data, 1, 4) = ZstdMagic /\ (Len(data) - 4) % 2 = 0
    THEN [ok |-> TRUE, data |-> UnRle(data, 5)]
    ELSE [ok |-> FALSE, data |-> <<>>]

_compress_dds(compression, data) ==
    IF compression # "zstd" THEN data ELSE ZstdCompress(data)

_decompress_dds(data, meta) ==
    IF meta.disk_compression # "zstd"
    THEN [ok |-> TRUE, data |-> data]
    ELSE ZstdDecompress(data)

\* ------------------------------------------------------------------------
\* Tiles, paths and keys
\* ------------------------------------------------------------------------

TileDim(z) == IF z >= 15 THEN 4 * Pow2(z - 15) ELSE 4 \div Pow2(15 - z)

TileId(row) == <<row, 34432, "BI", 12>>

\* the Tile object a caller holds for `row` at effective zoom z, its DDS
\* descriptor built for the active format
Tile(row, z, fmt) ==
    [row |-> row, col |-> 34432, maptype |-> "BI", tilename_zoom |-> 12,
     max_zoom |-> z, id |-> TileId(row), chunks_per_row |-> 2,
     dds |-> DDS(TileDim(z), TileDim(z), fmt)]

\* get_dds_cache_path: one base name per (row, col, maptype, zoom, max_zoom)
_paths_for(row, col, maptype, tilename_zoom, max_zoom) ==
    <<row, col, maptype, tilename_zoom, max_zoom>>

PathOf(tile, max_zoom) ==
    _paths_for(tile.row, tile.col, tile.maptype, tile.tilename_zoom, max_zoom)

Paths == {_paths_for(r, 34432, "BI", 12, z) : r \in Rows, z \in Zooms}

_tile_key(tile_id, max_zoom) == <<tile_id, max_zoom>>

\* ------------------------------------------------------------------------
\* Files
\* ------------------------------------------------------------------------

NoFile == [exists |-> FALSE, data |-> <<>>, mtime |-> 0]

\* a file with its bytes and modification time
File(data, mtime) == [exists |-> TRUE, data |-> data, mtime |-> mtime]

EmptyMeta == [v |-> 0]

NoDdm == [exists |-> FALSE, json_ok |-> FALSE, meta |-> EmptyMeta]

DdmFile(meta) == [exists |-> TRUE, json_ok |-> TRUE, meta |-> meta]

\* ------------------------------------------------------------------------
\* DDM metadata
\* ------------------------------------------------------------------------

MipmapZl(max_zoom, i) == IF i < max_zoom - 11 THEN max_zoom - i ELSE 12

_build_ddm(tile, max_zoom, bundle_mtime, dds_format, compressor, mm0_missing_indices, disk_compression, built) ==
    LET missing      == mm0_missing_indices
        total_chunks == tile.chunks_per_row * tile.chunks_per_row
        mm_count     == tile.dds.mipMapCount
        mipmaps == [j \in 1..mm_count |->
                      IF j = 1 /\ total_chunks > 0
                      THEN [zl |-> MipmapZl(max_zoom, 0),
                            complete |-> Len(missing) = 0,
                            total |-> total_chunks,
                            valid |-> total_chunks - Len(missing)]
                      ELSE [zl |-> MipmapZl(max_zoom, j - 1), complete |-> TRUE]]
    IN  [v |-> DDM_VERSION,
         w |-> tile.dds.width,
         h |-> tile.dds.height,
         mm |-> mm_count,
         zl |-> tile.tilename_zoom,
         max_zl |-> max_zoom,
         fmt |-> dds_format,
         comp |-> compressor,
         map |-> tile.maptype,
         bundle_mtime |-> bundle_mtime,
         built |-> built,
         tile_row |-> tile.row,
         tile_col |-> tile.col,
         mipmaps |-> mipmaps,
         populated_mipmaps |-> [j \in 1..mm_count |-> j - 1],
         needs_healing |-> Len(missing) > 0,
         healing_chunks |-> Len(missing),
         missing_indices |-> missing,
         disk_compression |-> disk_compression]

_read_ddm(w, path) ==
    IF w.ddm[path].exists /\ w.ddm[path].json_ok
    THEN [some |-> TRUE, meta |-> w.ddm[path].meta]
    ELSE [some |-> FALSE, meta |-> EmptyMeta]

_delete_pair(w, dds_path, ddm_path) ==
    [w EXCEPT !.dds[dds_path] = NoFile, !.ddm[ddm_path] = NoDdm]

\* ------------------------------------------------------------------------
\* LRU map (OrderedDict, oldest first) and the usage counter
\* ------------------------------------------------------------------------

HasKey(entries, key) == \E i \in 1..Len(entries) : entries[i].key = key

IndexOf(entries, key) == CHOOSE i \in 1..Len(entries) : entries[i].key = key

RemoveKey(entries, key) ==
    LET keep == {i \in 1..Len(entries) : entries[i].key # key}
        F[i \in 0..Len(entries)] ==
            IF i = 0 THEN <<>>
            ELSE IF i \in keep THEN Append(F[i - 1], entries[i]) ELSE F[i - 1]
    IN  F[Len(entries)]

Entry(key, path, size, atime) ==
    [key |-> key, path |-> path, size |-> size, atime |-> atime]

\* the locked section that ends store, store_from_file and store_incremental
LruStore(w, key, path, size, now) ==
    LET old_size == IF HasKey(w.entries, key)
                    THEN w.entries[IndexOf(w.entries, key)].size ELSE 0
    IN  [w EXCEPT !.entries = Append(RemoveKey(w.entries, key),
                                     Entry(key, path, size, now)),
                  !.current_size = (w.current_size - old_size) + size]

\* faulty variant: a hit on a tracked key counts its bytes again
LruTouchCounts(w, key, path, size, now) ==
    [w EXCEPT !.entries = Append(RemoveKey(w.entries, key),
                                 Entry(key, path, size, now)),
              !.current_size = w.current_size + size]

\* the locked section that ends a load hit
LruTouch(w, key, path, size, now) ==
    IF HasKey(w.entries, key)
    THEN LET old == w.entries[IndexOf(w.entries, key)]
         IN  [w EXCEPT !.entries = Append(RemoveKey(w.entries, key),
                                          Entry(key, path, old.size, now))]
    ELSE [w EXCEPT !.entries = Append(w.entries, Entry(key, path, size, now)),
                   !.current_size = w.current_size + size]

\* ------------------------------------------------------------------------
\* Staleness (DynamicDDSCache._is_stale)
\* ------------------------------------------------------------------------

_get_format_and_compressor(c) == [fmt |-> c.format, comp |-> c.compressor]

\* faulty variant: the compressor tag is not compared
_is_staleNoCompressor(w, c, meta, tile, dds_path) ==
    IF meta.fmt # c.format THEN TRUE
    ELSE IF /\ meta.disk_compression = "none"
            /\ meta.max_zl = tile.max_zoom
            /\ \/ ~w.dds[dds_path].exists
               \/ Len(w.dds[dds_path].data) # tile.dds.total_size
         THEN TRUE
    ELSE IF /\ meta.bundle_mtime > 0
            /\ c.bundle[tile.row] > 0
            /\ c.bundle[tile.row] > meta.bundle_mtime
         THEN TRUE
    ELSE FALSE

_is_stale(w, c, meta, tile, dds_path) ==
    IF meta.fmt # c.format THEN TRUE
    ELSE IF meta.comp # c.compressor THEN TRUE
    ELSE IF /\ meta.disk_compression = "none"
            /\ meta.max_zl = tile.max_zoom
            /\ \/ ~w.dds[dds_path].exists
               \/ Len(w.dds[dds_path].data) # tile.dds.total_size
         THEN TRUE
    ELSE IF /\ meta.bundle_mtime > 0
            /\ c.bundle[tile.row] > 0
            /\ c.bundle[tile.row] > meta.bundle_mtime
         THEN TRUE
    ELSE FALSE

\* ------------------------------------------------------------------------
\* store / store_from_file
\*   w   : the cache's files and LRU state
\*   c   : [enabled, compression, format, compressor, bundle] (self._enabled,
\*         self._compression, CFG.pydds.format/compressor, bundle mtimes)
\*   fail: the I/O step that raises ("none" when every step succeeds)
\* ------------------------------------------------------------------------

StoreFails == {"none", "write_dds", "write_ddm"}

\* faulty variant: the DDM names the configured mode whatever was written
DiskImageLabelled(c, dds_bytes) ==
    [disk_bytes |-> IF Len(_compress_dds(c.compression, dds_bytes)) < Len(dds_bytes)
                    THEN _compress_dds(c.compression, dds_bytes) ELSE dds_bytes,
     disk_compression |-> c.compression]

\* what goes to disk for dds_bytes: [disk_bytes, disk_compression]
DiskImage(c, dds_bytes) ==
    LET compressed       == _compress_dds(c.compression, dds_bytes)
        disk_compression == IF Len(compressed) < Len(dds_bytes)
                            THEN c.compression ELSE "none"
    IN  [disk_bytes |-> IF disk_compression = "none" THEN dds_bytes ELSE compressed,
         disk_compression |-> disk_compression]

\* temp file written and renamed over dds_path
WriteDds(w, dds_path, disk_bytes, mtime) ==
    [w EXCEPT !.dds[dds_path] = File(disk_bytes, mtime)]

_write_ddm(w, ddm_path, meta) ==
    [w EXCEPT !.ddm[ddm_path] = DdmFile(meta)]

_cleanup_jpegs_async(w, tile) ==
    [w EXCEPT !.jpeg_cleanups = w.jpeg_cleanups \cup {tile.id}]

\* faulty variant: the source JPEGs are scheduled for deletion whatever the
\* missing-chunk list says
storeCleansAlways(w, c, now, tile_id, max_zoom, dds_bytes, tile, bundle_path, mm0_missing_indices, fail) ==
    IF ~c.enabled THEN [w |-> w, ret |-> FALSE]
    ELSE IF Len(dds_bytes) < HeaderLen THEN [w |-> w, ret |-> FALSE]
    ELSE
    LET path         == PathOf(tile, max_zoom)
        bundle_mtime == IF bundle_path THEN c.bundle[tile.row] ELSE 0
        fc           == _get_format_and_compressor(c)
        img          == DiskImage(c, dds_bytes)
        w1           == WriteDds(w, path, img.disk_bytes, now)
        meta         == _build_ddm(tile, max_zoom, bundle_mtime, fc.fmt, fc.comp,
                                   mm0_missing_indices, img.disk_compression, now)
        w2           == _write_ddm(w1, path, meta)
        w3           == LruStore(w2, _tile_key(tile_id, max_zoom), path,
                                 Len(img.disk_bytes), now)
        w4           == _cleanup_jpegs_async(w3, tile)
    IN  CASE fail = "write_dds" -> [w |-> w,  ret |-> FALSE]
          [] fail = "write_ddm" -> [w |-> w1, ret |-> FALSE]
          [] OTHER              -> [w |-> w4, ret |-> TRUE]

store(w, c, now, tile_id, max_zoom, dds_bytes, tile, bundle_path, mm0_missing_indices, fail) ==
    IF ~c.enabled THEN [w |-> w, ret |-> FALSE]
    ELSE IF Len(dds_bytes) < HeaderLen THEN [w |-> w, ret |-> FALSE]
    ELSE
    LET path         == PathOf(tile, max_zoom)
        bundle_mtime == IF bundle_path THEN c.bundle[tile.row] ELSE 0
        fc           == _get_format_and_compressor(c)
        img          == DiskImage(c, dds_bytes)
        w1           == WriteDds(w, path, img.disk_bytes, now)
        meta         == _build_ddm(tile, max_zoom, bundle_mtime, fc.fmt, fc.comp,
                                   mm0_missing_indices, img.disk_compression, now)
        w2           == _write_ddm(w1, path, meta)
        w3           == LruStore(w2, _tile_key(tile_id, max_zoom), path,
                                 Len(img.disk_bytes), now)
        w4           == IF mm0_missing_indices = <<>>
                        THEN _cleanup_jpegs_async(w3, tile) ELSE w3
    IN  CASE fail = "write_dds" -> [w |-> w,  ret |-> FALSE]
          [] fail = "write_ddm" -> [w |-> w1, ret |-> FALSE]
          [] OTHER              -> [w |-> w4, ret |-> TRUE]

\* source: the file at source_path; staging: source_path is the path that
\* get_staging_path returned (<dds_path>.tmp.<pid>)
store_from_file(w, c, now, tile_id, max_zoom, source, staging, tile, mm0_missing_indices, fail) ==
    IF ~c.enabled THEN [w |-> w, ret |-> FALSE]
    ELSE IF ~source.exists THEN [w |-> w, ret |-> FALSE]
    ELSE IF Len(source.data) < HeaderLen THEN [w |-> w, ret |-> FALSE]
    ELSE
    LET path == PathOf(tile, max_zoom)
        zstd == c.compression = "zstd"
        img  == IF zstd THEN DiskImage(c, source.data)
                ELSE [disk_bytes |-> source.data, disk_compression |-> "none"]
        \* without zstd the temp name is unlinked before the hard link: when
        \* the source is that very file, link and copy both find no source
        lost == ~zstd /\ staging
        \* a hard link or copy2 keeps the source's mtime
        w1   == WriteDds(w, path, img.disk_bytes,
                         IF zstd THEN now ELSE source.mtime)
        fc   == _get_format_and_compressor(c)
        meta == _build_ddm(tile, max_zoom, 0, fc.fmt, fc.comp,
                           mm0_missing_indices, img.disk_compression, now)
        w2   == _write_ddm(w1, path, meta)
        w3   == LruStore(w2, _tile_key(tile_id, max_zoom), path,
                         Len(img.disk_bytes), now)
        w4   == IF mm0_missing_indices = <<>>
                THEN _cleanup_jpegs_async(w3, tile) ELSE w3
    IN  CASE lost \/ fail = "write_dds" -> [w |-> w,  ret |-> FALSE]
          [] fail = "write_ddm"         -> [w |-> w1, ret |-> FALSE]
          [] OTHER                      -> [w |-> w4, ret |-> TRUE]

\* ------------------------------------------------------------------------
\* load
\* ------------------------------------------------------------------------

NoHint == [some |-> FALSE, path |-> <<>>, meta |-> EmptyMeta]

Hint(path, meta) == [some |-> TRUE, path |-> path, meta |-> meta]

\* the attributes load may set on the caller's tile
NoAttrs ==
    [upgrade_available |-> NoHint, downgrade_available |-> NoHint,
     needs_healing |-> FALSE, missing_indices |-> <<>>]

Miss(w, attrs) == [w |-> w, hit |-> FALSE, data |-> <<>>, attrs |-> attrs]

\* faulty variant: a miss never looks one zoom level down
_check_upgrade_candidateNever(w, tile_id, max_zoom, tile) == NoAttrs

_check_upgrade_candidate(w, tile_id, max_zoom, tile) ==
    LET old_zoom == max_zoom - 1
        old_path == PathOf(tile, old_zoom)
    IN  IF old_zoom < 12 \/ old_path \notin Paths THEN NoAttrs
        ELSE LET old_meta == _read_ddm(w, old_path)
             IN  IF old_meta.some /\ old_meta.meta.max_zl = old_zoom
                 THEN [NoAttrs EXCEPT !.upgrade_available =
                                          Hint(old_path, old_meta.meta)]
                 ELSE NoAttrs

load(w, c, now, tile_id, max_zoom, tile) ==
    IF ~c.enabled THEN Miss(w, NoAttrs)
    ELSE
    LET path == PathOf(tile, max_zoom)
        m    == _read_ddm(w, path)
        meta == m.meta
    IN
    IF ~m.some
    THEN Miss(w, _check_upgrade_candidate(w, tile_id, max_zoom, tile))
    ELSE IF _is_stale(w, c, meta, tile, path)
    THEN Miss(_delete_pair(w, path, path), NoAttrs)
    ELSE IF meta.max_zl # max_zoom
    THEN IF max_zoom - meta.max_zl = 1
         THEN Miss(w, [NoAttrs EXCEPT !.upgrade_available = Hint(path, meta)])
         ELSE IF meta.max_zl - max_zoom = 1
         THEN Miss(w, [NoAttrs EXCEPT !.downgrade_available = Hint(path, meta)])
         ELSE Miss(_delete_pair(w, path, path), NoAttrs)
    ELSE IF ~w.dds[path].exists
    THEN Miss(_delete_pair(w, path, path), NoAttrs)
    ELSE
    LET raw_bytes == w.dds[path].data
        dec       == _decompress_dds(raw_bytes, meta)
    IN
    IF ~dec.ok
    THEN Miss(_delete_pair(w, path, path), NoAttrs)
    ELSE IF Len(dec.data) # tile.dds.total_size
    THEN Miss(_delete_pair(w, path, path), NoAttrs)
    ELSE
    [w     |-> LruTouch(w, _tile_key(tile_id, max_zoom), path, Len(dec.data), now),
     hit   |-> TRUE,
     data  |-> dec.data,
     attrs |-> [NoAttrs EXCEPT !.needs_healing = meta.needs_healing,
                               !.missing_indices =
                                   IF meta.needs_healing
                                   THEN meta.missing_indices ELSE <<>>]]

\* ------------------------------------------------------------------------
\* upgrade_zl / downgrade_zl
\*   return [w, ok, data]: ok = FALSE stands for None
\* ------------------------------------------------------------------------

\* the old entry's bytes: [found, ok, data]; found = FALSE when the .dds
\* cannot be opened, ok = FALSE when decompression raises
ReadOld(w, old_path, old_meta) ==
    IF ~w.dds[old_path].exists
    THEN [found |-> FALSE, ok |-> FALSE, data |-> <<>>]
    ELSE LET d == _decompress_dds(w.dds[old_path].data, old_meta)
         IN  [found |-> TRUE, ok |-> d.ok, data |-> d.data]

\* after the new pair is stored: old files removed, old key dropped
DropOld(w, old_path, old_key) ==
    LET w1 == _delete_pair(w, old_path, old_path)
    IN  IF HasKey(w1.entries, old_key)
        THEN [w1 EXCEPT !.entries = RemoveKey(w1.entries, old_key),
                        !.current_size = w1.current_size
                            - w1.entries[IndexOf(w1.entries, old_key)].size]
        ELSE w1

\* old mm[i] -> new mm[i + 1], for i = from .. (0-based)
RECURSIVE ShiftUp(_, _, _, _, _)
ShiftUp(new_dds, old_dds_bytes, old_mm_list, new_mm_list, i) ==
    IF i >= Len(old_mm_list) \/ i + 1 >= Len(new_mm_list) THEN new_dds
    ELSE LET old_mm   == old_mm_list[i + 1]
             new_mm   == new_mm_list[i + 2]
             old_data == Slice(old_dds_bytes, old_mm.startpos, old_mm.endpos)
             copy_len == Min(Len(old_data), new_mm.length)
         IN  ShiftUp(Splice(new_dds, new_mm.startpos, Slice(old_data, 0, copy_len)),
                     old_dds_bytes, old_mm_list, new_mm_list, i + 1)

\* old mm[i] -> new mm[i - 1], for i = from .. (0-based, from >= 1)
RECURSIVE ShiftDown(_, _, _, _, _)
ShiftDown(new_dds, old_dds_bytes, old_mm_list, new_mm_list, i) ==
    IF i >= Len(old_mm_list) \/ i - 1 >= Len(new_mm_list) THEN new_dds
    ELSE LET old_mm   == old_mm_list[i + 1]
             new_mm   == new_mm_list[i]
             old_data == Slice(old_dds_bytes, old_mm.startpos, old_mm.endpos)
             copy_len == Min(Len(old_data), new_mm.length)
         IN  ShiftDown(Splice(new_dds, new_mm.startpos, Slice(old_data, 0, copy_len)),
                       old_dds_bytes, old_mm_list, new_mm_list, i + 1)

NoneResult(w) == [w |-> w, ok |-> FALSE, data |-> <<>>]

\* faulty variant: the old pair is dropped whatever store returned
FinishMigrationEager(st, old_path, old_key, new_dds_bytes) ==
    [w |-> DropOld(st.w, old_path, old_key), ok |-> st.ret,
     data |-> IF st.ret THEN new_dds_bytes ELSE <<>>]

\* `if self.store(...)`: the old pair goes only when the new one is stored
FinishMigration(st, old_path, old_key, new_dds_bytes) ==
    IF st.ret
    THEN [w |-> DropOld(st.w, old_path, old_key), ok |-> TRUE,
          data |-> new_dds_bytes]
    ELSE NoneResult(st.w)

\* faulty variant: any step upwards is taken
SingleStepUpAny(old_max_zoom, new_max_zoom) == new_max_zoom - old_max_zoom >= 1

SingleStepUp(old_max_zoom, new_max_zoom) == new_max_zoom - old_max_zoom = 1

SingleStepDown(old_max_zoom, new_max_zoom) == old_max_zoom - new_max_zoom = 1

upgrade_zl(w, c, now, tile_id, old_max_zoom, new_max_zoom, new_mm0_bytes, tile, fail) ==
    IF ~c.enabled THEN NoneResult(w)
    ELSE IF ~SingleStepUp(old_max_zoom, new_max_zoom) THEN NoneResult(w)
    ELSE
    LET old_path == PathOf(tile, old_max_zoom)
        old_meta == _read_ddm(w, old_path)
        old      == ReadOld(w, old_path, old_meta.meta)
    IN  IF ~old_meta.some THEN NoneResult(w)
        ELSE IF ~old.found THEN NoneResult(w)
        ELSE IF ~old.ok THEN NoneResult(_delete_pair(w, old_path, old_path))
        ELSE IF old_meta.meta.w = 0 \/ old_meta.meta.h = 0 THEN NoneResult(w)
        ELSE
        LET new_dds_ref == tile.dds
            new_mm_list == new_dds_ref.mipmap_list
            old_mm_list == DDS(old_meta.meta.w, old_meta.meta.h,
                               old_meta.meta.fmt).mipmap_list
            buf0 == Splice(Fill(new_dds_ref.total_size, 0), 0,
                           Slice(new_dds_ref.header, 0, HeaderLen))
            buf1 == IF Len(new_mm_list) > 0
                    THEN LET mm0 == new_mm_list[1]
                             end == Min(mm0.startpos + Len(new_mm0_bytes), mm0.endpos)
                         IN  Splice(buf0, mm0.startpos,
                                    Slice(new_mm0_bytes, 0, end - mm0.startpos))
                    ELSE buf0
            new_dds_bytes == ShiftUp(buf1, old.data, old_mm_list, new_mm_list, 0)
            st == store(w, c, now, tile_id, new_max_zoom, new_dds_bytes, tile,
                        FALSE, <<>>, fail)
        IN  FinishMigration(st, old_path, _tile_key(tile_id, old_max_zoom),
                            new_dds_bytes)

downgrade_zl(w, c, now, tile_id, old_max_zoom, new_max_zoom, tile, fail) ==
    IF ~c.enabled THEN NoneResult(w)
    ELSE IF ~SingleStepDown(old_max_zoom, new_max_zoom) THEN NoneResult(w)
    ELSE
    LET old_path == PathOf(tile, old_max_zoom)
        old_meta == _read_ddm(w, old_path)
        old      == ReadOld(w, old_path, old_meta.meta)
    IN  IF ~old_meta.some THEN NoneResult(w)
        ELSE IF ~old.found THEN NoneResult(w)
        ELSE IF ~old.ok THEN NoneResult(_delete_pair(w, old_path, old_path))
        ELSE IF old_meta.meta.w = 0 \/ old_meta.meta.h = 0 THEN NoneResult(w)
        ELSE
        LET dxt_format  == old_meta.meta.fmt
            old_mm_list == DDS(old_meta.meta.w, old_meta.meta.h,
                               dxt_format).mipmap_list
            new_width   == old_meta.meta.w \div 2
            new_height  == old_meta.meta.h \div 2
            new_dds_struct == DDS(new_width, new_height, dxt_format)
            buf0 == Splice(Fill(new_dds_struct.total_size, 0), 0,
                           Slice(new_dds_struct.header, 0, HeaderLen))
            new_dds_bytes == ShiftDown(buf0, old.data, old_mm_list,
                                       new_dds_struct.mipmap_list, 1)
            st == store(w, c, now, tile_id, new_max_zoom, new_dds_bytes, tile,
                        FALSE, <<>>, fail)
        IN  IF new_width < 4 \/ new_height < 4 THEN NoneResult(w)
            ELSE FinishMigration(st, old_path, _tile_key(tile_id, old_max_zoom),
                                 new_dds_bytes)

\* ------------------------------------------------------------------------
\* invalidate / evict_lru / scan_existing
\* ------------------------------------------------------------------------

invalidate(w, c, tile_id, max_zoom) ==
    LET key == _tile_key(tile_id, max_zoom)
    IN  IF ~c.enabled THEN [w |-> w, ret |-> FALSE]
        ELSE IF ~HasKey(w.entries, key) THEN [w |-> w, ret |-> FALSE]
        ELSE LET entry == w.entries[IndexOf(w.entries, key)]
                 w1    == [w EXCEPT !.entries = RemoveKey(w.entries, key),
                                    !.current_size = w.current_size - entry.size]
             IN  [w |-> _delete_pair(w1, entry.path, entry.path), ret |-> TRUE]

\* the locked loop: popitem(last=False) while freed < bytes_to_free
RECURSIVE EvictLoop(_, _, _, _, _)
EvictLoop(entries, current_size, freed, to_delete, bytes_to_free) ==
    IF freed < bytes_to_free /\ Len(entries) > 0
    THEN EvictLoop(Tail(entries), current_size - entries[1].size,
                   freed + entries[1].size, Append(to_delete, entries[1].path),
                   bytes_to_free)
    ELSE [entries |-> entries, current_size |-> current_size, freed |-> freed,
          to_delete |-> to_delete]

evict_lru(w, bytes_to_free) ==
    LET r  == EvictLoop(w.entries, w.current_size, 0, <<>>, bytes_to_free)
        gone == {r.to_delete[i] : i \in 1..Len(r.to_delete)}
    IN  [w |-> [w EXCEPT !.entries = r.entries,
                         !.current_size = r.current_size,
                         !.dds = [p \in Paths |-> IF p \in gone THEN NoFile ELSE @[p]],
                         !.ddm = [p \in Paths |-> IF p \in gone THEN NoDdm ELSE @[p]]],
         ret |-> r.freed]

\* faulty variant: the scanned entries stay in the order they were found
SortByAtimeNot(entries) == entries

\* sorted(self._entries.items(), key=atime): stable, oldest first
SortByAtime(entries) ==
    LET n == Len(entries)
        rank(i) == Cardinality({j \in 1..n :
                      \/ entries[j].atime < entries[i].atime
                      \/ entries[j].atime = entries[i].atime /\ j < i}) + 1
    IN  [k \in 1..n |-> entries[CHOOSE i \in 1..n : rank(i) = k]]

\* the directory walk, in some order of the files
RECURSIVE PathSeq(_)
PathSeq(ps) ==
    IF ps = {} THEN <<>>
    ELSE LET p == CHOOSE q \in ps : TRUE IN <<p>> \o PathSeq(ps \ {p})

\* one .dds found by the walk: [w, count]
ScanFile(w, count, p) ==
    LET meta == _read_ddm(w, p)
        key  == _tile_key(<<meta.meta.tile_row, meta.meta.tile_col,
                            meta.meta.map, meta.meta.zl>>, meta.meta.max_zl)
    IN  IF ~w.dds[p].exists THEN [w |-> w, count |-> count]
        ELSE IF ~w.ddm[p].exists
            THEN [w |-> [w EXCEPT !.dds[p] = NoFile], count |-> count]
        ELSE IF ~meta.some THEN [w |-> w, count |-> count]
        ELSE IF HasKey(w.entries, key) THEN [w |-> w, count |-> count]
        ELSE [w |-> [w EXCEPT !.entries = Append(w.entries,
                                    Entry(key, p, Len(w.dds[p].data), w.dds[p].mtime)),
                              !.current_size = w.current_size + Len(w.dds[p].data)],
              count |-> count + 1]

RECURSIVE ScanWalk(_, _, _)
ScanWalk(w, count, files) ==
    IF files = <<>> THEN [w |-> w, count |-> count]
    ELSE LET r == ScanFile(w, count, Head(files))
         IN  ScanWalk(r.w, r.count, Tail(files))

scan_existing(w, c) ==
    IF ~c.enabled THEN [w |-> w, ret |-> 0]
    ELSE LET r == ScanWalk(w, 0, PathSeq(Paths))
         IN  [w |-> IF r.count > 0
                    THEN [r.w EXCEPT !.entries = SortByAtime(r.w.entries)]
                    ELSE r.w,
              ret |-> r.count]

\* ------------------------------------------------------------------------
\* A kill during store / store_from_file, and the restart
\* ------------------------------------------------------------------------

\* where the process dies: with the temp .dds written ("tmp"), after the
\* .dds was renamed into place ("dds"), after the .ddm was renamed into place
\* ("ddm")
KillSteps == {"tmp", "dds", "ddm"}

\* the files a store killed at `step` leaves at the final paths
store_killed(w, c, now, tile_id, max_zoom, dds_bytes, tile, bundle_path, mm0_missing_indices, step) ==
    store(w, c, now, tile_id, max_zoom, dds_bytes, tile, bundle_path,
          mm0_missing_indices,
          CASE step = "tmp" -> "write_dds"
            [] step = "dds" -> "write_ddm"
            [] OTHER        -> "none").w

store_from_file_killed(w, c, now, tile_id, max_zoom, source, staging, tile, mm0_missing_indices, step) ==
    store_from_file(w, c, now, tile_id, max_zoom, source, staging, tile,
                    mm0_missing_indices,
                    CASE step = "tmp" -> "write_dds"
                      [] step = "dds" -> "write_ddm"
                      [] OTHER        -> "none").w

\* a new process on the same disk: __init__, then the startup scan
Restart(w, c) ==
    scan_existing([w EXCEPT !.entries = <<>>, !.current_size = 0,
                            !.jpeg_cleanups = {}], c).w

\* ------------------------------------------------------------------------
\* State
\* ------------------------------------------------------------------------

VARIABLES
    dds_files,      \* <base>.dds at every path: [exists, data]
    ddm_files,      \* <base>.ddm at every path: [exists, json_ok, meta]
    entries,        \* self._entries, oldest first: [key, path, size, atime]
    current_size,   \* self._current_size
    jpeg_cleanups,  \* tiles whose source-JPEG deletion has been scheduled
    enabled,        \* self._enabled
    compression,    \* self._compression
    cfg_format,     \* CFG.pydds.format (normalised to BC1 / BC3)
    cfg_compressor, \* CFG.pydds.compressor
    bundle,         \* mtime of every tile's source bundle, 0 when absent
    now,            \* time.time()
    stored,         \* history: what the last successful store* put at a path
    last,           \* the last call and what it returned
    threads,        \* calls in progress on one tile key, step by step;
                    \* dirs: the tile directories made under the cache root
    budget          \* the DiskBudgetManager and its eviction worker

cacheVars == <<dds_files, ddm_files, entries, current_size, jpeg_cleanups,
               enabled, compression, cfg_format, cfg_compressor, bundle, now,
               stored, last>>

cacheVarsButLast == <<dds_files, ddm_files, entries, current_size, jpeg_cleanups,
                      enabled, compression, cfg_format, cfg_compressor, bundle,
                      now, stored>>

vars == <<cacheVars, threads, budget>>

W == [dds |-> dds_files, ddm |-> ddm_files, entries |-> entries,
      current_size |-> current_size, jpeg_cleanups |-> jpeg_cleanups]

Cfg == [enabled |-> enabled, compression |-> compression,
        format |-> cfg_format, compressor |-> cfg_compressor,
        bundle |-> bundle]

SetW(w) ==
    /\ dds_files' = w.dds
    /\ ddm_files' = w.ddm
    /\ entries' = w.entries
    /\ current_size' = w.current_size
    /\ jpeg_cleanups' = w.jpeg_cleanups

\* some: the path holds what a call put there and nothing has touched it
\* since; via: that call; data: the artifact; missing: the mm0 chunks it lacks;
\* fmt, comp: the configuration then; old, oldfmt: for a migrated entry, what
\* `stored` held for the old zoom; mm0: the new mipmap 0 handed to upgrade_zl
\* no call in progress, no budget manager constructed
NoThreads == [on |-> FALSE]

NoBudget == [on |-> FALSE]

NotStored ==
    [some |-> FALSE, via |-> "", data |-> <<>>, missing |-> <<>>, fmt |-> "",
     comp |-> "", old |-> <<>>, oldfmt |-> "", mm0 |-> <<>>]

StoredPartial(via, data, missing) ==
    [some |-> TRUE, via |-> via, data |-> data, missing |-> missing,
     fmt |-> cfg_format, comp |-> cfg_compressor, old |-> <<>>, oldfmt |-> "",
     mm0 |-> <<>>]

Stored(via, data) == StoredPartial(via, data, <<>>)

Migrated(via, data, from, mm0) ==
    [some |-> TRUE, via |-> via, data |-> data, missing |-> <<>>,
     fmt |-> cfg_format, comp |-> cfg_compressor, old |-> from.data,
     oldfmt |-> from.fmt, mm0 |-> mm0]

\* pre: what `stored` held when the call was made, for the path (store, load)
\* or for the old zoom's path (upgrade, downgrade); arg: old_max_zoom of an
\* upgrade or downgrade, bytes_to_free of evict_lru; num: a numeric return
LastN(op, path, ok, data, pre, arg, num) ==
    [op |-> op, path |-> path, ok |-> ok, data |-> data, pre |-> pre,
     arg |-> arg, num |-> num]

LastZ(op, path, ok, data, pre, old_zoom) ==
    LastN(op, path, ok, data, pre, old_zoom, 0)

Last(op, path, ok, data, pre) == LastN(op, path, ok, data, pre, 0, 0)

CacheInit ==
    /\ dds_files = [p \in Paths |-> NoFile]
    /\ ddm_files = [p \in Paths |-> NoDdm]
    /\ entries = <<>>
    /\ current_size = 0
    /\ jpeg_cleanups = {}
    /\ enabled = TRUE
    /\ compression \in CompressionModes
    /\ cfg_format = "BC1"
    /\ cfg_compressor = "ISPC"
    /\ bundle = [r \in Rows |-> 0]
    /\ now = 1
    /\ stored = [p \in Paths |-> NotStored]
    /\ last = Last("init", <<>>, FALSE, <<>>, NotStored)
    /\ threads = NoThreads
    /\ budget = NoBudget

\* ------------------------------------------------------------------------
\* Payloads a builder hands to store
\* ------------------------------------------------------------------------

\* header, then mipmap i filled with the byte base + i (the tests' sample)
PatternBytes(d, base) ==
    [i \in 1..d.total_size |->
        IF i <= HeaderLen THEN d.header[i]
        ELSE LET mm == CHOOSE j \in 1..Len(d.mipmap_list) :
                           /\ i > d.mipmap_list[j].startpos
                           /\ i <= d.mipmap_list[j].endpos
             IN  base + (mm - 1)]

\* no two neighbours equal: nothing for the codec to shrink
NoiseBytes(d) == [i \in 1..d.total_size |-> 1 + (i % 2)]

Payloads(d) ==
    {PatternBytes(d, 16), NoiseBytes(d),
     SubSeq(PatternBytes(d, 16), 1, d.total_size - 8),
     SubSeq(DDSHeader, 1, 9)}

\* the payloads for a tile of zoom z in format f
TilePayloads == [z \in Zooms |-> [f \in Formats |-> Payloads(DDS(TileDim(z), TileDim(z), f))]]

MissingLists == {<<>>, <<0, 3>>}

\* ------------------------------------------------------------------------
\* Round trip and staleness: store, store_from_file, load, configuration
\* changes and bundle rewrites on the tiles at zoom 16
\* ------------------------------------------------------------------------

RTZoom == {16}

RTRows == {21728}

RTStore(row, z, bytes, bundle_path, missing, fail) ==
    LET tile == Tile(row, z, cfg_format)
        r    == store(W, Cfg, now, tile.id, z, bytes, tile, bundle_path,
                      missing, fail)
        path == PathOf(tile, z)
    IN  /\ now < MaxClock
        /\ SetW(r.w)
        /\ now' = now + 1
        /\ stored' = [stored EXCEPT ![path] =
                          IF r.ret THEN Stored("store", bytes) ELSE NotStored]
        /\ last' = Last("store", path, r.ret, bytes, stored[path])
        /\ UNCHANGED <<threads, budget, enabled, compression, cfg_format, cfg_compressor, bundle>>

RTStoreFromFile(row, z, bytes, staging, missing, fail) ==
    LET tile == Tile(row, z, cfg_format)
        r    == store_from_file(W, Cfg, now, tile.id, z, File(bytes, now), staging,
                                tile, missing, fail)
        path == PathOf(tile, z)
    IN  /\ now < MaxClock
        /\ SetW(r.w)
        /\ now' = now + 1
        /\ stored' = [stored EXCEPT ![path] =
                          IF r.ret THEN Stored("store_from_file", bytes) ELSE NotStored]
        /\ last' = Last("store_from_file", path, r.ret, bytes, stored[path])
        /\ UNCHANGED <<threads, budget, enabled, compression, cfg_format, cfg_compressor, bundle>>

RTLoad(row, z) ==
    LET tile == Tile(row, z, cfg_format)
        r    == load(W, Cfg, now, tile.id, z, tile)
    IN  /\ now < MaxClock
        /\ SetW(r.w)
        /\ now' = now + 1
        /\ stored' = [stored EXCEPT ![PathOf(tile, z)] =
                          IF r.hit THEN @ ELSE NotStored]
        /\ last' = Last("load", PathOf(tile, z), r.hit, r.data,
                        stored[PathOf(tile, z)])
        /\ UNCHANGED <<threads, budget, enabled, compression, cfg_format, cfg_compressor, bundle>>

SetFormat(f) ==
    /\ f # cfg_format
    /\ cfg_format' = f
    /\ last' = Last("set_format", <<>>, TRUE, <<>>, NotStored)
    /\ UNCHANGED <<threads, budget, dds_files, ddm_files, entries, current_size, jpeg_cleanups,
                   enabled, compression, cfg_compressor, bundle, now, stored>>

SetCompressor(x) ==
    /\ x # cfg_compressor
    /\ cfg_compressor' = x
    /\ last' = Last("set_compressor", <<>>, TRUE, <<>>, NotStored)
    /\ UNCHANGED <<threads, budget, dds_files, ddm_files, entries, current_size, jpeg_cleanups,
                   enabled, compression, cfg_format, bundle, now, stored>>

\* the bundle layer rewrites the tile's source bundle
BundleWrite(row) ==
    /\ now < MaxClock
    /\ bundle' = [bundle EXCEPT ![row] = now]
    /\ now' = now + 1
    /\ stored' = [p \in Paths |-> IF p[1] = row THEN NotStored ELSE stored[p]]
    /\ last' = Last("bundle_write", <<>>, TRUE, <<>>, NotStored)
    /\ UNCHANGED <<threads, budget, dds_files, ddm_files, entries, current_size, jpeg_cleanups,
                   enabled, compression, cfg_format, cfg_compressor>>

RTNext ==
    \/ \E row \in RTRows, z \in RTZoom, bundle_path \in BOOLEAN,
          missing \in MissingLists, fail \in StoreFails :
          \E bytes \in TilePayloads[z][cfg_format] :
              RTStore(row, z, bytes, bundle_path, missing, fail)
    \/ \E row \in RTRows, z \in RTZoom, staging \in BOOLEAN,
          missing \in MissingLists, fail \in StoreFails :
          \E bytes \in TilePayloads[z][cfg_format] :
              RTStoreFromFile(row, z, bytes, staging, missing, fail)
    \/ \E row \in RTRows, z \in RTZoom : RTLoad(row, z)
    \/ \E f \in Formats : SetFormat(f)
    \/ \E x \in Compressors : SetCompressor(x)
    \/ \E row \in RTRows : BundleWrite(row)

SpecRT == CacheInit /\ [][RTNext]_vars

\* ------------------------------------------------------------------------
\* Zoom-level migration: store, upgrade_zl, downgrade_zl, load, a format
\* change, and damage to a .dds on disk, on one tile
\* ------------------------------------------------------------------------

ZLMaxClock == 4

ZLRows == {21728}

ZLStoreZooms == {16}

\* <<old_max_zoom, new_max_zoom>> of the upgrade and downgrade calls made
UpSteps == {<<15, 16>>, <<16, 17>>, <<15, 17>>, <<16, 16>>, <<17, 16>>}

DownSteps == {<<16, 15>>, <<17, 16>>, <<15, 14>>, <<17, 15>>, <<16, 16>>, <<15, 16>>}

\* the payloads of the tile's total_size
FullPayloads ==
    [z \in Zooms |-> [f \in Formats |->
        {b \in TilePayloads[z][f] :
            Len(b) = DDS(TileDim(z), TileDim(z), f).total_size}]]

\* a fresh mipmap 0 for the tile: every byte 0xAA
NewMm0(tile) == Fill(tile.dds.mipmap_list[1].length, 170)

ZLStore(row, z, bytes) ==
    LET tile == Tile(row, z, cfg_format)
        r    == store(W, Cfg, now, tile.id, z, bytes, tile, FALSE, <<>>, "none")
        path == PathOf(tile, z)
    IN  /\ now < ZLMaxClock
        /\ SetW(r.w)
        /\ now' = now + 1
        /\ stored' = [stored EXCEPT ![path] =
                          IF r.ret THEN Stored("store", bytes) ELSE NotStored]
        /\ last' = Last("store", path, r.ret, bytes, stored[path])
        /\ UNCHANGED <<threads, budget, enabled, compression, cfg_format, cfg_compressor, bundle>>

ZLUpgrade(row, old_max_zoom, new_max_zoom, fail) ==
    LET tile     == Tile(row, new_max_zoom, cfg_format)
        mm0      == NewMm0(tile)
        r        == upgrade_zl(W, Cfg, now, tile.id, old_max_zoom, new_max_zoom,
                               mm0, tile, fail)
        old_path == PathOf(tile, old_max_zoom)
        new_path == PathOf(tile, new_max_zoom)
    IN  /\ now < ZLMaxClock
        /\ SetW(r.w)
        /\ now' = now + 1
        /\ stored' = [p \in Paths |->
                IF p = new_path /\ r.ok
                    THEN Migrated("upgrade_zl", r.data, stored[old_path], mm0)
                ELSE IF p = new_path /\ dds_files'[p] # dds_files[p] THEN NotStored
                ELSE IF p = old_path /\ dds_files'[p] # dds_files[p] THEN NotStored
                ELSE stored[p]]
        /\ last' = LastZ("upgrade_zl", new_path, r.ok, r.data, stored[old_path],
                         old_max_zoom)
        /\ UNCHANGED <<threads, budget, enabled, compression, cfg_format, cfg_compressor, bundle>>

ZLDowngrade(row, old_max_zoom, new_max_zoom, fail) ==
    LET tile     == Tile(row, new_max_zoom, cfg_format)
        r        == downgrade_zl(W, Cfg, now, tile.id, old_max_zoom, new_max_zoom,
                                 tile, fail)
        old_path == PathOf(tile, old_max_zoom)
        new_path == PathOf(tile, new_max_zoom)
    IN  /\ now < ZLMaxClock
        /\ SetW(r.w)
        /\ now' = now + 1
        /\ stored' = [p \in Paths |->
                IF p = new_path /\ r.ok
                    THEN Migrated("downgrade_zl", r.data, stored[old_path], <<>>)
                ELSE IF p = new_path /\ dds_files'[p] # dds_files[p] THEN NotStored
                ELSE IF p = old_path /\ dds_files'[p] # dds_files[p] THEN NotStored
                ELSE stored[p]]
        /\ last' = LastZ("downgrade_zl", new_path, r.ok, r.data, stored[old_path],
                         old_max_zoom)
        /\ UNCHANGED <<threads, budget, enabled, compression, cfg_format, cfg_compressor, bundle>>

ZLLoad(row, z) ==
    LET tile == Tile(row, z, cfg_format)
        r    == load(W, Cfg, now, tile.id, z, tile)
    IN  /\ now < ZLMaxClock
        /\ SetW(r.w)
        /\ now' = now + 1
        /\ stored' = [stored EXCEPT ![PathOf(tile, z)] =
                          IF r.hit THEN @ ELSE NotStored]
        /\ last' = Last("load", PathOf(tile, z), r.hit, r.data,
                        stored[PathOf(tile, z)])
        /\ UNCHANGED <<threads, budget, enabled, compression, cfg_format, cfg_compressor, bundle>>

\* the disk loses the first byte of a cached .dds
Damage(p) ==
    /\ dds_files[p].exists
    /\ stored[p].some
    /\ dds_files' = [dds_files EXCEPT ![p] = File(Tail(dds_files[p].data), dds_files[p].mtime)]
    /\ stored' = [stored EXCEPT ![p] = NotStored]
    /\ last' = Last("damage", p, TRUE, <<>>, stored[p])
    /\ UNCHANGED <<threads, budget, ddm_files, entries, current_size, jpeg_cleanups, enabled,
                   compression, cfg_format, cfg_compressor, bundle, now>>

\* a .dds disappears from the disk while its .ddm stays
Unlink(p) ==
    /\ dds_files[p].exists
    /\ stored[p].some
    /\ dds_files' = [dds_files EXCEPT ![p] = NoFile]
    /\ stored' = [stored EXCEPT ![p] = NotStored]
    /\ last' = Last("unlink", p, TRUE, <<>>, stored[p])
    /\ UNCHANGED <<threads, budget, ddm_files, entries, current_size, jpeg_cleanups, enabled,
                   compression, cfg_format, cfg_compressor, bundle, now>>

ZLNext ==
    \/ \E row \in ZLRows, z \in ZLStoreZooms :
          \E bytes \in FullPayloads[z][cfg_format] : ZLStore(row, z, bytes)
    \/ \E row \in ZLRows, step \in UpSteps, fail \in StoreFails :
          ZLUpgrade(row, step[1], step[2], fail)
    \/ \E row \in ZLRows, step \in DownSteps, fail \in StoreFails :
          ZLDowngrade(row, step[1], step[2], fail)
    \/ \E row \in ZLRows, z \in Zooms : ZLLoad(row, z)
    \/ \E f \in Formats : SetFormat(f)
    \/ \E p \in Paths : Damage(p)
    \/ \E p \in Paths : Unlink(p)

SpecZL == CacheInit /\ [][ZLNext]_vars

\* ------------------------------------------------------------------------
\* LRU: store, load, invalidate, scan_existing and evict_lru on three keys,
\* started on the disk a previous session left behind
\* ------------------------------------------------------------------------

LRUMaxClock == 7

LRUTiles == {<<21728, 16>>, <<21729, 16>>, <<21728, 15>>}

EvictSizes == {0, 1, 200}

EmptyW ==
    [dds |-> [p \in Paths |-> NoFile], ddm |-> [p \in Paths |-> NoDdm],
     entries |-> <<>>, current_size |-> 0, jpeg_cleanups |-> {}]

\* the disk after a session that stored k tiles, the first at time 1
PriorSession(k, comp) ==
    LET c  == [enabled |-> TRUE, compression |-> comp, format |-> "BC1",
               compressor |-> "ISPC", bundle |-> [r \in Rows |-> 0]]
        t1 == Tile(21728, 16, "BC1")
        t2 == Tile(21729, 16, "BC1")
        b  == PatternBytes(t1.dds, 16)
        w1 == IF k >= 1
              THEN store(EmptyW, c, 1, t1.id, 16, b, t1, FALSE, <<>>, "none").w
              ELSE EmptyW
        w2 == IF k >= 2
              THEN store(w1, c, 2, t2.id, 16, b, t2, FALSE, <<>>, "none").w
              ELSE w1
    IN  w2

LRUInit ==
    /\ compression \in CompressionModes
    /\ \E k \in 0..2 :
          /\ dds_files = PriorSession(k, compression).dds
          /\ ddm_files = PriorSession(k, compression).ddm
    /\ entries = <<>>
    /\ current_size = 0
    /\ jpeg_cleanups = {}
    /\ enabled = TRUE
    /\ cfg_format = "BC1"
    /\ cfg_compressor = "ISPC"
    /\ bundle = [r \in Rows |-> 0]
    /\ now = 3
    /\ stored = [p \in Paths |-> NotStored]
    /\ last = Last("init", <<>>, FALSE, <<>>, NotStored)
    /\ threads = NoThreads
    /\ budget = NoBudget

LRUStore(row, z, bytes) ==
    LET tile == Tile(row, z, cfg_format)
        r    == store(W, Cfg, now, tile.id, z, bytes, tile, FALSE, <<>>, "none")
    IN  /\ now < LRUMaxClock
        /\ SetW(r.w)
        /\ now' = now + 1
        /\ last' = Last("store", PathOf(tile, z), r.ret, <<>>, NotStored)
        /\ UNCHANGED <<threads, budget, enabled, compression, cfg_format,
                       cfg_compressor, bundle,
                       stored>>

LRULoad(row, z) ==
    LET tile == Tile(row, z, cfg_format)
        r    == load(W, Cfg, now, tile.id, z, tile)
    IN  /\ now < LRUMaxClock
        /\ SetW(r.w)
        /\ now' = now + 1
        /\ last' = Last("load", PathOf(tile, z), r.hit, <<>>, NotStored)
        /\ UNCHANGED <<threads, budget, enabled, compression, cfg_format,
                       cfg_compressor, bundle,
                       stored>>

LRUInvalidate(row, z) ==
    LET r == invalidate(W, Cfg, TileId(row), z)
    IN  /\ now < LRUMaxClock
        /\ SetW(r.w)
        /\ now' = now + 1
        /\ last' = Last("invalidate", PathOf(Tile(row, z, cfg_format), z), r.ret,
                        <<>>, NotStored)
        /\ UNCHANGED <<threads, budget, enabled, compression, cfg_format,
                       cfg_compressor, bundle,
                       stored>>

LRUScan ==
    LET r == scan_existing(W, Cfg)
    IN  /\ now < LRUMaxClock
        /\ SetW(r.w)
        /\ now' = now + 1
        /\ last' = LastN("scan_existing", <<>>, TRUE, <<>>, NotStored, 0, r.ret)
        /\ UNCHANGED <<threads, budget, enabled, compression, cfg_format,
                       cfg_compressor, bundle,
                       stored>>

LRUEvict(bytes_to_free) ==
    LET r == evict_lru(W, bytes_to_free)
    IN  /\ now < LRUMaxClock
        /\ SetW(r.w)
        /\ now' = now + 1
        /\ last' = LastN("evict_lru", <<>>, TRUE, <<>>, NotStored, bytes_to_free,
                         r.ret)
        /\ UNCHANGED <<threads, budget, enabled, compression, cfg_format,
                       cfg_compressor, bundle,
                       stored>>

LRUNext ==
    \/ \E t \in LRUTiles : \E bytes \in FullPayloads[t[2]][cfg_format] :
          LRUStore(t[1], t[2], bytes)
    \/ \E t \in LRUTiles : LRULoad(t[1], t[2])
    \/ \E t \in LRUTiles : LRUInvalidate(t[1], t[2])
    \/ LRUScan
    \/ \E n \in EvictSizes : LRUEvict(n)

SpecLRU == LRUInit /\ [][LRUNext]_vars

\* ------------------------------------------------------------------------
\* Crash safety: stores that complete, stores killed part-way followed by
\* the restart, and loads, on one tile. `stored` follows what each rename
\* put into the .dds.
\* ------------------------------------------------------------------------

CrashMaxClock == 3

CrashRows == {21728}

CrashZoom == {16}

CrStore(row, z, bytes, missing) ==
    LET tile == Tile(row, z, cfg_format)
        r    == store(W, Cfg, now, tile.id, z, bytes, tile, FALSE, missing, "none")
        path == PathOf(tile, z)
    IN  /\ now < CrashMaxClock
        /\ SetW(r.w)
        /\ now' = now + 1
        /\ stored' = [stored EXCEPT ![path] = StoredPartial("store", bytes, missing)]
        /\ last' = Last("store", path, r.ret, bytes, stored[path])
        /\ UNCHANGED <<threads, budget, enabled, compression, cfg_format, cfg_compressor, bundle>>

CrStoreFromFile(row, z, bytes, missing) ==
    LET tile == Tile(row, z, cfg_format)
        r    == store_from_file(W, Cfg, now, tile.id, z, File(bytes, now), FALSE,
                                tile, missing, "none")
        path == PathOf(tile, z)
    IN  /\ now < CrashMaxClock
        /\ SetW(r.w)
        /\ now' = now + 1
        /\ stored' = [stored EXCEPT ![path] =
                          StoredPartial("store_from_file", bytes, missing)]
        /\ last' = Last("store_from_file", path, r.ret, bytes, stored[path])
        /\ UNCHANGED <<threads, budget, enabled, compression, cfg_format, cfg_compressor, bundle>>

StoreKilled(row, z, bytes, missing, step) ==
    LET tile == Tile(row, z, cfg_format)
        w1   == store_killed(W, Cfg, now, tile.id, z, bytes, tile, FALSE, missing,
                             step)
        path == PathOf(tile, z)
    IN  /\ now < CrashMaxClock
        /\ SetW(Restart(w1, Cfg))
        /\ now' = now + 1
        /\ stored' = [stored EXCEPT ![path] =
                          IF step = "tmp" THEN @
                          ELSE StoredPartial("store", bytes, missing)]
        /\ last' = Last("store_killed", path, FALSE, bytes, stored[path])
        /\ UNCHANGED <<threads, budget, enabled, compression, cfg_format, cfg_compressor, bundle>>

StoreFromFileKilled(row, z, bytes, missing, step) ==
    LET tile == Tile(row, z, cfg_format)
        w1   == store_from_file_killed(W, Cfg, now, tile.id, z, File(bytes, now),
                                       FALSE, tile, missing, step)
        path == PathOf(tile, z)
    IN  /\ now < CrashMaxClock
        /\ SetW(Restart(w1, Cfg))
        /\ now' = now + 1
        /\ stored' = [stored EXCEPT ![path] =
                          IF step = "tmp" THEN @
                          ELSE StoredPartial("store_from_file", bytes, missing)]
        /\ last' = Last("store_from_file_killed", path, FALSE, bytes, stored[path])
        /\ UNCHANGED <<threads, budget, enabled, compression, cfg_format, cfg_compressor, bundle>>

CrLoad(row, z) ==
    LET tile == Tile(row, z, cfg_format)
        r    == load(W, Cfg, now, tile.id, z, tile)
        path == PathOf(tile, z)
    IN  /\ now < CrashMaxClock
        /\ SetW(r.w)
        /\ now' = now + 1
        /\ stored' = [stored EXCEPT ![path] = IF r.hit THEN @ ELSE NotStored]
        /\ last' = Last("load", path, r.hit, r.data, stored[path])
        /\ UNCHANGED <<threads, budget, enabled, compression, cfg_format, cfg_compressor, bundle>>

CrashNext ==
    \/ \E row \in CrashRows, z \in CrashZoom, missing \in MissingLists :
          \E bytes \in FullPayloads[z][cfg_format] :
              CrStore(row, z, bytes, missing)
    \/ \E row \in CrashRows, z \in CrashZoom, missing \in MissingLists :
          \E bytes \in FullPayloads[z][cfg_format] :
              CrStoreFromFile(row, z, bytes, missing)
    \/ \E row \in CrashRows, z \in CrashZoom, missing \in MissingLists,
          step \in KillSteps :
          \E bytes \in FullPayloads[z][cfg_format] :
              StoreKilled(row, z, bytes, missing, step)
    \/ \E row \in CrashRows, z \in CrashZoom, missing \in MissingLists,
          step \in KillSteps :
          \E bytes \in FullPayloads[z][cfg_format] :
              StoreFromFileKilled(row, z, bytes, missing, step)
    \/ \E row \in CrashRows, z \in CrashZoom : CrLoad(row, z)

SpecCrash == CacheInit /\ [][CrashNext]_vars

\* C1: a load that follows a successful store or store_from_file of a byte
\* string B of the tile's total_size, with nothing else having touched the key
\* and the configuration as it was at the store, returns exactly B; in both
\* compression modes.
RoundTrip ==
    (/\ last.op = "load"
     /\ last.pre.some
     /\ last.pre.fmt = cfg_format
     /\ last.pre.comp = cfg_compressor
     /\ Len(last.pre.data) = DDS(TileDim(last.path[5]), TileDim(last.path[5]),
                                 cfg_format).total_size)
    => (last.ok /\ last.data = last.pre.data)

\* a store_from_file in zstd mode that went to disk compressed, loaded back
RoundTripWitness ==
    /\ last.op = "load"
    /\ last.pre.some
    /\ last.pre.via = "store_from_file"
    /\ compression = "zstd"
    /\ last.ok
    /\ last.data = last.pre.data
    /\ ddm_files[last.path].exists
    /\ ddm_files[last.path].meta.disk_compression = "zstd"
    /\ dds_files[last.path].data # last.pre.data

\* C4: when the active block format or compressor differs from the one in
\* force when the tile was stored, the next load of the tile at that zoom
\* misses and leaves neither the .dds nor the .ddm on disk.
StaleConfigRemoved ==
    (/\ last.op = "load"
     /\ last.pre.some
     /\ (last.pre.fmt # cfg_format \/ last.pre.comp # cfg_compressor))
    => (/\ ~last.ok
        /\ ~dds_files[last.path].exists
        /\ ~ddm_files[last.path].exists)

\* a compressor change alone, after a store that the old settings would hit
StaleConfigWitness ==
    /\ last.op = "load"
    /\ last.pre.some
    /\ last.pre.fmt = cfg_format
    /\ last.pre.comp # cfg_compressor
    /\ Len(last.pre.data) = DDS(TileDim(last.path[5]), TileDim(last.path[5]),
                                cfg_format).total_size
    /\ ~last.ok
    /\ ~dds_files[last.path].exists

\* mipmap i (0-based) of the DDS bytes d of a width x width tile in format fmt
MipmapOf(d, width, fmt, i) ==
    LET mm == DDS(width, width, fmt).mipmap_list[i + 1]
    IN  Slice(d, mm.startpos, mm.endpos)

MipmapCountOf(width, fmt) == DDS(width, width, fmt).mipMapCount

\* C5: after upgrade_zl of a stored entry from Z to Z+1 succeeded, the load at
\* Z+1 returns a DDS whose mipmap 0 is mm0_new and whose mipmap i+1 is,
\* byte for byte, mipmap i of the pre-upgrade DDS, for every mipmap i of the
\* old artifact.
UpgradeExact ==
    (/\ last.op = "load"
     /\ last.pre.some
     /\ last.pre.via = "upgrade_zl"
     /\ last.pre.oldfmt # ""
     /\ last.pre.fmt = cfg_format
     /\ last.pre.comp = cfg_compressor)
    => LET z == last.path[5]
       IN  /\ last.ok
           /\ MipmapOf(last.data, TileDim(z), cfg_format, 0) = last.pre.mm0
           /\ \A i \in 0..(MipmapCountOf(TileDim(z - 1), last.pre.oldfmt) - 1) :
                  MipmapOf(last.data, TileDim(z), cfg_format, i + 1)
                      = MipmapOf(last.pre.old, TileDim(z - 1), last.pre.oldfmt, i)

\* C6: when downgrade_zl of a stored entry from Z to Z-1 succeeds, what it
\* returns, and what the load at Z-1 returns afterwards, is a DDS of the halved
\* dimensions whose mipmap i is, byte for byte, mipmap i+1 of the
\* pre-downgrade DDS, for every mipmap i of the new artifact.
DowngradeExact ==
    /\ (/\ last.op = "downgrade_zl"
        /\ last.ok
        /\ last.pre.some)
       => LET z == last.path[5]
          IN  /\ Len(last.data) = DDS(TileDim(z), TileDim(z), cfg_format).total_size
              /\ \A i \in 0..(MipmapCountOf(TileDim(z), cfg_format) - 1) :
                     MipmapOf(last.data, TileDim(z), cfg_format, i)
                         = MipmapOf(last.pre.data, TileDim(z + 1), last.pre.fmt, i + 1)
    /\ (/\ last.op = "load"
        /\ last.pre.some
        /\ last.pre.via = "downgrade_zl"
        /\ last.pre.oldfmt # ""
        /\ last.pre.fmt = cfg_format
        /\ last.pre.comp = cfg_compressor)
       => LET z == last.path[5]
          IN  /\ last.ok
              /\ Len(last.data) = DDS(TileDim(z), TileDim(z), cfg_format).total_size
              /\ \A i \in 0..(MipmapCountOf(TileDim(z), cfg_format) - 1) :
                     MipmapOf(last.data, TileDim(z), cfg_format, i)
                         = MipmapOf(last.pre.old, TileDim(z + 1), last.pre.oldfmt, i + 1)

\* the path of the old zoom in the upgrade or downgrade call `l` records
OldPathOf(l) == [l.path EXCEPT ![5] = l.arg]

\* the LRU entry of the old zoom's key, if tracked
OldEntryOf(es, l) ==
    LET key == _tile_key(TileId(l.path[1]), l.arg)
    IN  IF HasKey(es, key) THEN <<es[IndexOf(es, key)]>> ELSE <<>>

IsMigration(l) == l.op \in {"upgrade_zl", "downgrade_zl"}

\* C7: upgrade_zl returns None unless new - old = 1 and downgrade_zl returns
\* None unless old - new = 1; the rejected call changes no file, no LRU entry
\* and not the usage counter.
ZoomStepRejected ==
    [][(\/ last'.op = "upgrade_zl" /\ last'.path[5] - last'.arg # 1
        \/ last'.op = "downgrade_zl" /\ last'.arg - last'.path[5] # 1)
       => (/\ ~last'.ok
           /\ UNCHANGED <<dds_files, ddm_files, entries, current_size>>)]_vars

\* an upgrade by two levels refused although the old zoom holds a stored entry
ZoomStepRejectedWitness ==
    /\ last.op = "upgrade_zl"
    /\ last.path[5] - last.arg = 2
    /\ last.pre.some
    /\ dds_files[OldPathOf(last)].exists
    /\ ~last.ok

\* C8 as stated: whenever upgrade_zl or downgrade_zl returns None the old
\* pair and its LRU entry are as before the call, and the old pair goes only
\* once the new .dds and .ddm are in place.
MigrationFailureKeepsOld ==
    [][IsMigration(last')
       => LET o == OldPathOf(last')
          IN  /\ ~last'.ok
                 => (/\ dds_files'[o] = dds_files[o]
                     /\ ddm_files'[o] = ddm_files[o]
                     /\ OldEntryOf(entries', last') = OldEntryOf(entries, last'))
              /\ (dds_files[o].exists /\ ~dds_files'[o].exists)
                 => (/\ dds_files'[last'.path].exists
                     /\ ddm_files'[last'.path].exists)]_vars

\* the old entry of an accepted call has a readable DDM and a .dds that does
\* not decompress
OldUndecodable(l) ==
    LET o == OldPathOf(l)
    IN  /\ \/ l.op = "upgrade_zl" /\ l.path[5] - l.arg = 1
           \/ l.op = "downgrade_zl" /\ l.arg - l.path[5] = 1
        /\ _read_ddm(W, o).some
        /\ dds_files[o].exists
        /\ ~_decompress_dds(dds_files[o].data, ddm_files[o].meta).ok

\* C8, amended: a failing upgrade_zl or downgrade_zl leaves the old pair and
\* its LRU entry as before, except when the old .dds fails to decompress: then
\* the old .dds and .ddm are deleted and the LRU entry stays as it was. In
\* every other case the old pair goes only once the new .dds and .ddm are in
\* place.
MigrationFailure ==
    [][IsMigration(last')
       => LET o == OldPathOf(last')
          IN  /\ (~last'.ok /\ ~OldUndecodable(last'))
                 => (/\ dds_files'[o] = dds_files[o]
                     /\ ddm_files'[o] = ddm_files[o]
                     /\ OldEntryOf(entries', last') = OldEntryOf(entries, last'))
              /\ OldUndecodable(last')
                 => (/\ ~last'.ok
                     /\ ~dds_files'[o].exists
                     /\ ~ddm_files'[o].exists
                     /\ OldEntryOf(entries', last') = OldEntryOf(entries, last'))
              /\ (dds_files[o].exists /\ ~dds_files'[o].exists
                     /\ ~OldUndecodable(last'))
                 => (/\ last'.ok
                     /\ dds_files'[last'.path].exists
                     /\ ddm_files'[last'.path].exists)]_vars

\* an upgrade whose store failed after the new .dds was renamed into place:
\* the new zoom has a .dds without .ddm, the old pair is still there
MigrationFailureWitness ==
    /\ last.op = "upgrade_zl"
    /\ last.path[5] - last.arg = 1
    /\ ~last.ok
    /\ last.pre.some
    /\ dds_files[last.path].exists
    /\ ~ddm_files[last.path].exists
    /\ dds_files[OldPathOf(last)].exists
    /\ ddm_files[OldPathOf(last)].exists

RECURSIVE SumSizes(_)
SumSizes(es) == IF es = <<>> THEN 0 ELSE es[1].size + SumSizes(Tail(es))

\* C9: evict_lru(n) evicts exactly the entries with the oldest access times
\* (no survivor is older than an evicted entry, and survivors keep their
\* records), stops as soon as n bytes are freed, and lowers the tracked usage
\* by at least n whenever the usage was at least n.
EvictOldestFirst ==
    [][last'.op = "evict_lru"
       => LET n    == last'.arg
              gone == {i \in 1..Len(entries) : ~HasKey(entries', entries[i].key)}
              kept == (1..Len(entries)) \ gone
          IN  /\ \A i \in gone, j \in kept : entries[i].atime <= entries[j].atime
              /\ entries' = SubSeq(entries, Cardinality(gone) + 1, Len(entries))
              /\ last'.num = SumSizes(SubSeq(entries, 1, Cardinality(gone)))
              /\ gone # {} => last'.num - entries[Cardinality(gone)].size < n
              /\ last'.num < n => entries' = <<>>
              /\ current_size' = current_size - last'.num
              /\ current_size >= n => current_size' <= current_size - n
              /\ \A i \in gone : /\ ~dds_files'[entries[i].path].exists
                                  /\ ~ddm_files'[entries[i].path].exists]_vars

\* an eviction that took the oldest part of the LRU and left a younger rest
EvictOldestFirstWitness ==
    /\ last.op = "evict_lru"
    /\ last.arg > 0
    /\ last.num >= last.arg
    /\ Len(entries) >= 2

\* the .ddm at p describes the artifact in the .dds at p: the bytes decode as
\* the DDM says to the artifact last renamed into place, and the DDM lists
\* that artifact's missing chunks
DdmDescribesDds(p) ==
    LET meta == ddm_files[p].meta
        d    == _decompress_dds(dds_files[p].data, meta)
    IN  /\ stored[p].some
        /\ d.ok
        /\ d.data = stored[p].data
        /\ meta.missing_indices = stored[p].missing
        /\ meta.needs_healing = (stored[p].missing # <<>>)

\* C2: after a kill at any step of a store or store_from_file (an older pair
\* may be at the same paths) and the restart, every .dds at a final path has
\* its .ddm, the pair is tracked, and the .dds is the complete artifact that
\* .ddm describes.
CrashSafe ==
    last.op \in {"store_killed", "store_from_file_killed"}
    => \A p \in Paths :
          dds_files[p].exists
          => /\ ddm_files[p].exists
             /\ \E i \in 1..Len(entries) : entries[i].path = p
             /\ DdmDescribesDds(p)

\* ------------------------------------------------------------------------
\* In-place healing (patch_missing_chunks / _do_patch)
\* ------------------------------------------------------------------------

\* _do_patch's chunk_base_size: the side of a chunk in pixels, scaled with
\* the tile (a zoom-16 tile is chunks_per_row = 2 chunks wide)
ChunkBaseSize == 4

\* f.seek(offset); f.write(stripe): a write past the end zero-fills the gap
SeekWrite(data, offset, stripe) ==
    LET before == IF offset <= Len(data) THEN SubSeq(data, 1, offset)
                  ELSE data \o Fill(offset - Len(data), 0)
        after  == IF offset + Len(stripe) < Len(data)
                  THEN SubSeq(data, offset + Len(stripe) + 1, Len(data))
                  ELSE <<>>
    IN  before \o stripe \o after

\* dds_ref.compress(...) of the decoded, resized chunk idx for mipmap mm_idx
DxtChunk(idx, mm_idx, n) == Fill(n, 192 + 8 * mm_idx + idx)

\* the seek-writes of one chunk, mipmap by mipmap: <<[offset, stripe], ...>>
RECURSIVE ChunkStripes(_, _, _)
ChunkStripes(tile, idx, mm_idx) ==
    LET dds_ref      == tile.dds
        cx           == idx % tile.chunks_per_row
        cy           == idx \div tile.chunks_per_row
        chunk_pixels == ChunkBaseSize \div Pow2(mm_idx)
        mm_width     == dds_ref.width \div Pow2(mm_idx)
    IN  IF mm_idx >= Len(dds_ref.mipmap_list) \/ chunk_pixels < 4 \/ mm_width < 4
        THEN <<>>
        ELSE
        LET mm              == dds_ref.mipmap_list[mm_idx + 1]
            blocksize       == dds_ref.blocksize
            blocks_per_side == chunk_pixels \div 4
            mm_blocks_x     == mm_width \div 4
            row_stride      == mm_blocks_x * blocksize
            block_x         == cx * blocks_per_side
            block_y         == cy * blocks_per_side
            stripe_bytes    == blocks_per_side * blocksize
            dxt_bytes_chunk == DxtChunk(idx, mm_idx,
                                        blocks_per_side * stripe_bytes)
        IN  [s \in 1..blocks_per_side |->
                [offset |-> mm.startpos + (block_y + (s - 1)) * row_stride
                                + block_x * blocksize,
                 stripe |-> Slice(dxt_bytes_chunk, (s - 1) * stripe_bytes,
                                  s * stripe_bytes)]]
            \o ChunkStripes(tile, idx, mm_idx + 1)

\* chunk_jpegs: <<[idx, ok], ...>>, ok = FALSE for a JPEG that fails to decode
RECURSIVE PatchStripes(_, _)
PatchStripes(tile, chunk_jpegs) ==
    IF chunk_jpegs = <<>> THEN <<>>
    ELSE (IF chunk_jpegs[1].ok THEN ChunkStripes(tile, chunk_jpegs[1].idx, 0)
          ELSE <<>>)
         \o PatchStripes(tile, Tail(chunk_jpegs))

Patched(chunk_jpegs) ==
    Cardinality({i \in 1..Len(chunk_jpegs) : chunk_jpegs[i].ok})

RECURSIVE ApplyStripes(_, _)
ApplyStripes(dds_data, stripes) ==
    IF stripes = <<>> THEN dds_data
    ELSE ApplyStripes(SeekWrite(dds_data, stripes[1].offset, stripes[1].stripe),
                      Tail(stripes))

\* faulty variant: the healing fields are left as they were
PatchedMetaUnhealed(meta, chunk_jpegs, tile_missing) == meta

\* the DDM _do_patch writes back; tile_missing is tile._dds_missing_indices
PatchedMeta(meta, chunk_jpegs, tile_missing) ==
    LET keys      == {chunk_jpegs[i].idx : i \in 1..Len(chunk_jpegs)}
        remaining == SelectSeq(tile_missing, LAMBDA i : i \notin keys)
        all       == Patched(chunk_jpegs) = Len(chunk_jpegs)
        left      == IF all THEN <<>> ELSE remaining
        mm0       == meta.mipmaps[1]
        total     == IF "total" \in DOMAIN mm0 THEN mm0.total ELSE 0
    IN  [meta EXCEPT
            !.needs_healing = Len(left) > 0,
            !.healing_chunks = Len(left),
            !.missing_indices = left,
            !.mipmaps = [@ EXCEPT ![1] =
                            [zl |-> mm0.zl, complete |-> Len(left) = 0,
                             total |-> total, valid |-> total - Len(left)]]]

\* ------------------------------------------------------------------------
\* Calls in progress on one tile key.  Only the LRU map has a lock
\* (self._lock); file reads, renames, unlinks and seek-writes of different
\* threads interleave freely.
\* ------------------------------------------------------------------------

ConcTile == Tile(21728, 16, "BC1")

ConcPath == PathOf(ConcTile, 16)

ConcKey == _tile_key(ConcTile.id, 16)

\* what a healing caller passes: JPEGs for the chunks the tile lacks
ConcMissing == <<0, 3>>

ChunkJpegs ==
    {<<[idx |-> 0, ok |-> TRUE], [idx |-> 3, ok |-> TRUE]>>,
     <<[idx |-> 0, ok |-> TRUE], [idx |-> 3, ok |-> FALSE]>>}

\* l*: the load thread (lmeta, lraw: what it has read so far);
\* s*: the store thread; p*: the patch thread (ptodo: seek-writes left,
\* porphan: its open file is no longer the one at the path, pbuf: the patched
\* buffer of the compressed branch); ipc: the invalidate thread.
\* History: whole = every DDS a whole write has put at the path; by_store =
\* how much of the store thread's output is at the path untouched
\* ("none", "dds", "pair"); deleted_fresh = the load thread has deleted the
\* store thread's untouched pair
ThreadsInit(b0) ==
    [on |-> TRUE,
     lpc |-> "idle", lmeta |-> EmptyMeta, lraw |-> <<>>, lhit |-> FALSE,
     ldata |-> <<>>,
     spc |-> "idle", sbytes |-> <<>>, smissing |-> <<>>,
     ppc |-> "idle", pjpegs |-> <<>>, ptodo |-> <<>>, porphan |-> FALSE,
     pbuf |-> <<>>, pret |-> FALSE,
     ipc |-> "idle",
     whole |-> {b0}, by_store |-> "none", deleted_fresh |-> FALSE]

\* the file at the path is replaced or unlinked: an open descriptor keeps
\* the old file
Detach(t) == IF t.ppc = "stripes" THEN [t EXCEPT !.porphan = TRUE] ELSE t

ConcFrame ==
    UNCHANGED <<enabled, compression, cfg_format, cfg_compressor, bundle, now,
                stored, last, budget>>

ConcInit ==
    /\ compression \in CompressionModes
    /\ enabled = TRUE
    /\ cfg_format = "BC1"
    /\ cfg_compressor = "ISPC"
    /\ bundle = [r \in Rows |-> 0]
    /\ now = 2
    /\ stored = [p \in Paths |-> NotStored]
    /\ last = Last("init", <<>>, FALSE, <<>>, NotStored)
    /\ budget = NoBudget
    /\ \E b0 \in FullPayloads[16]["BC1"] :
          LET c  == [enabled |-> TRUE, compression |-> compression,
                     format |-> "BC1", compressor |-> "ISPC",
                     bundle |-> [r \in Rows |-> 0]]
              w0 == store(EmptyW, c, 1, ConcTile.id, 16, b0, ConcTile, FALSE,
                          ConcMissing, "none").w
          IN  /\ dds_files = w0.dds
              /\ ddm_files = w0.ddm
              /\ entries = w0.entries
              /\ current_size = w0.current_size
              /\ jpeg_cleanups = w0.jpeg_cleanups
              /\ threads = ThreadsInit(b0)

\* ---- load, step by step ----

\* _read_ddm; a missing DDM is a miss
LdReadDdm ==
    /\ threads.lpc = "idle"
    /\ LET m == _read_ddm(W, ConcPath)
       IN  threads' = IF enabled /\ m.some
                      THEN [threads EXCEPT !.lpc = "stale", !.lmeta = m.meta]
                      ELSE [threads EXCEPT !.lpc = "done"]
    /\ UNCHANGED <<cacheVars, budget>>

\* _is_stale(meta, tile, dds_path), which stats the .dds for "none" entries;
\* the DDM at this path always names the requested zoom
LdStale ==
    /\ threads.lpc = "stale"
    /\ threads' = [threads EXCEPT !.lpc =
                      IF _is_stale(W, Cfg, threads.lmeta, ConcTile, ConcPath)
                      THEN "delete" ELSE "read"]
    /\ UNCHANGED <<cacheVars, budget>>

\* open(dds_path, "rb").read()
LdRead ==
    /\ threads.lpc = "read"
    /\ threads' = IF dds_files[ConcPath].exists
                  THEN [threads EXCEPT !.lpc = "decode",
                                       !.lraw = dds_files[ConcPath].data]
                  ELSE [threads EXCEPT !.lpc = "delete"]
    /\ UNCHANGED <<cacheVars, budget>>

\* _decompress_dds, the size check, the locked LRU update, return
LdReturn ==
    /\ threads.lpc = "decode"
    /\ LET dec == _decompress_dds(threads.lraw, threads.lmeta)
       IN  IF dec.ok /\ Len(dec.data) = ConcTile.dds.total_size
           THEN /\ SetW(LruTouch(W, ConcKey, ConcPath, Len(dec.data), now))
                /\ threads' = [threads EXCEPT !.lpc = "done", !.lhit = TRUE,
                                              !.ldata = dec.data]
           ELSE /\ threads' = [threads EXCEPT !.lpc = "delete"]
                /\ UNCHANGED <<dds_files, ddm_files, entries, current_size,
                               jpeg_cleanups>>
    /\ ConcFrame

\* _delete_pair(dds_path, ddm_path), return None
LdDelete ==
    /\ threads.lpc = "delete"
    /\ SetW(_delete_pair(W, ConcPath, ConcPath))
    /\ threads' = [Detach(threads) EXCEPT
                      !.lpc = "done",
                      !.deleted_fresh = (threads.by_store = "pair"),
                      !.by_store = "none"]
    /\ ConcFrame

\* ---- store, step by step ----

\* the checks, the temp file, os.replace(tmp_dds, dds_path)
StWriteDds(dds_bytes, mm0_missing_indices) ==
    /\ threads.spc = "idle"
    /\ IF ~enabled \/ Len(dds_bytes) < HeaderLen
       THEN /\ threads' = [threads EXCEPT !.spc = "done"]
            /\ UNCHANGED <<dds_files, ddm_files, entries, current_size,
                           jpeg_cleanups>>
       ELSE /\ SetW(WriteDds(W, ConcPath, DiskImage(Cfg, dds_bytes).disk_bytes,
                             now))
            /\ threads' = [Detach(threads) EXCEPT
                              !.spc = "ddm", !.sbytes = dds_bytes,
                              !.smissing = mm0_missing_indices,
                              !.whole = @ \cup {dds_bytes},
                              !.by_store = "dds"]
    /\ ConcFrame

\* _build_ddm, _write_ddm (temp file and os.replace)
StWriteDdm ==
    /\ threads.spc = "ddm"
    /\ LET fc   == _get_format_and_compressor(Cfg)
           meta == _build_ddm(ConcTile, 16, 0, fc.fmt, fc.comp, threads.smissing,
                              DiskImage(Cfg, threads.sbytes).disk_compression,
                              now)
       IN  SetW(_write_ddm(W, ConcPath, meta))
    /\ threads' = [threads EXCEPT
                      !.spc = "lru",
                      !.by_store = IF @ = "dds" THEN "pair" ELSE "none"]
    /\ ConcFrame

\* the locked LRU update, _cleanup_jpegs_async, return True
StLru ==
    /\ threads.spc = "lru"
    /\ LET w1 == LruStore(W, ConcKey, ConcPath,
                          Len(DiskImage(Cfg, threads.sbytes).disk_bytes), now)
       IN  SetW(IF threads.smissing = <<>>
                THEN _cleanup_jpegs_async(w1, ConcTile) ELSE w1)
    /\ threads' = [threads EXCEPT !.spc = "done"]
    /\ ConcFrame

\* ---- patch_missing_chunks, step by step ----

\* _healing_in_progress (one patch thread: the key is never in the set), the
\* DDM read, then either the whole file read, decoded and patched in memory
\* or the file opened "r+b"
PtBegin(chunk_jpegs) ==
    /\ threads.ppc = "idle"
    /\ LET m             == _read_ddm(W, ConcPath)
           is_compressed == m.some /\ m.meta.disk_compression = "zstd"
           f             == dds_files[ConcPath]
           dec           == _decompress_dds(f.data, m.meta)
           stripes       == PatchStripes(ConcTile, chunk_jpegs)
       IN  threads' =
             IF ~f.exists THEN [threads EXCEPT !.ppc = "done"]
             ELSE IF is_compressed
             THEN IF ~dec.ok THEN [threads EXCEPT !.ppc = "done"]
                  ELSE [threads EXCEPT !.ppc = "replace",
                                       !.pjpegs = chunk_jpegs,
                                       !.pbuf = ApplyStripes(dec.data, stripes)]
             ELSE [threads EXCEPT !.ppc = "stripes", !.pjpegs = chunk_jpegs,
                                  !.ptodo = stripes, !.porphan = FALSE]
    /\ UNCHANGED <<cacheVars, budget>>

\* one f.seek(file_offset); f.write(stripe) on the open file
PtStripe ==
    /\ threads.ppc = "stripes"
    /\ threads.ptodo # <<>>
    /\ LET s    == threads.ptodo[1]
           f    == dds_files[ConcPath]
           data == SeekWrite(f.data, s.offset, s.stripe)
           end  == Len(threads.ptodo) = 1
       IN  IF threads.porphan
           THEN /\ threads' = [threads EXCEPT
                                  !.ptodo = Tail(@),
                                  !.ppc = IF end THEN "ddm" ELSE @]
                /\ UNCHANGED dds_files
           ELSE /\ dds_files' = [dds_files EXCEPT ![ConcPath] = File(data, now)]
                /\ threads' = [threads EXCEPT
                                  !.ptodo = Tail(@),
                                  !.ppc = IF end THEN "ddm" ELSE @,
                                  !.whole = IF end THEN @ \cup {data} ELSE @,
                                  !.by_store = "none"]
    /\ UNCHANGED <<ddm_files, entries, current_size, jpeg_cleanups>>
    /\ ConcFrame

\* compressed branch: recompress, temp file, os.replace(tmp, dds_path)
PtReplace ==
    /\ threads.ppc = "replace"
    /\ SetW(WriteDds(W, ConcPath, _compress_dds(compression, threads.pbuf), now))
    /\ threads' = [threads EXCEPT !.ppc = "ddm", !.whole = @ \cup {threads.pbuf},
                                  !.by_store = "none"]
    /\ ConcFrame

\* the DDM read again, its healing fields rewritten, _write_ddm
PtDdm ==
    /\ threads.ppc = "ddm"
    /\ LET m == _read_ddm(W, ConcPath)
       IN  IF m.some
           THEN /\ SetW(_write_ddm(W, ConcPath,
                                   PatchedMeta(m.meta, threads.pjpegs,
                                               ConcMissing)))
                /\ threads' = [threads EXCEPT
                                  !.ppc = "done", !.by_store = "none",
                                  !.pret = Patched(threads.pjpegs)
                                               = Len(threads.pjpegs)]
           ELSE /\ threads' = [threads EXCEPT
                                  !.ppc = "done",
                                  !.pret = Patched(threads.pjpegs)
                                               = Len(threads.pjpegs)]
                /\ UNCHANGED <<dds_files, ddm_files, entries, current_size,
                               jpeg_cleanups>>
    /\ ConcFrame

\* ---- invalidate, step by step ----

\* with self._lock: entry = self._entries.pop(key, None)
InvPop ==
    /\ threads.ipc = "idle"
    /\ IF enabled /\ HasKey(entries, ConcKey)
       THEN /\ entries' = RemoveKey(entries, ConcKey)
            /\ current_size' = current_size
                                  - entries[IndexOf(entries, ConcKey)].size
            /\ threads' = [threads EXCEPT !.ipc = "unlink"]
       ELSE /\ threads' = [threads EXCEPT !.ipc = "done"]
            /\ UNCHANGED <<entries, current_size>>
    /\ UNCHANGED <<dds_files, ddm_files, jpeg_cleanups>>
    /\ ConcFrame

\* _delete_pair outside the lock
InvUnlink ==
    /\ threads.ipc = "unlink"
    /\ SetW(_delete_pair(W, ConcPath, ConcPath))
    /\ threads' = [Detach(threads) EXCEPT !.ipc = "done", !.by_store = "none"]
    /\ ConcFrame

ConcNext ==
    \/ LdReadDdm
    \/ LdStale
    \/ LdRead
    \/ LdReturn
    \/ LdDelete
    \/ \E dds_bytes \in FullPayloads[16]["BC1"], missing \in MissingLists :
          StWriteDds(dds_bytes, missing)
    \/ StWriteDdm
    \/ StLru
    \/ \E chunk_jpegs \in ChunkJpegs : PtBegin(chunk_jpegs)
    \/ PtStripe
    \/ PtReplace
    \/ PtDdm
    \/ InvPop
    \/ InvUnlink

SpecConc == ConcInit /\ [][ConcNext]_vars

\* C3, first half: a load that returns bytes returns a DDS that a whole write
\* operation (the earlier store, the concurrent store, a finished patch) put
\* at the path -- never a partly written file or a mix of two writes.
LoadSeesWholeWrite ==
    (threads.on /\ threads.lpc = "done" /\ threads.lhit)
        => threads.ldata \in threads.whole

\* C3, second half: a load never deletes the pair that the concurrent store
\* has just written and nothing else has touched.
LoadKeepsFreshPair == threads.on => ~threads.deleted_fresh

\* C3: under any interleaving of store, patch_missing_chunks, invalidate and
\* load on one tile key, every load that returns bytes returns the complete
\* DDS of a state just before or just after a whole write operation, and a
\* load never deletes a pair a concurrent store has just written correctly.
Serialized == LoadSeesWholeWrite /\ LoadKeepsFreshPair

\* ------------------------------------------------------------------------
\* DiskBudgetManager: accounting and background eviction
\* ------------------------------------------------------------------------

\* total_budget_mb * 1024 * 1024, scaled to the tiles' sizes
TotalBudget == 1000

MaxAccounts == 3

\* __init__: percentages clamped, normalised to their sum
BudgetOf(total_budget, dds_budget_pct, bundle_budget_pct, jpeg_budget_pct) ==
    LET dds_pct    == Max(10, Min(60, dds_budget_pct))
        bundle_pct == Max(30, Min(80, bundle_budget_pct))
        jpeg_pct   == Max(1, Min(20, jpeg_budget_pct))
        total_pct  == dds_pct + bundle_pct + jpeg_pct
    IN  (total_budget * dds_pct) \div total_pct

\* apc: the caller inside account_dds ("idle": not in a call, "check": past
\* the locked update); wpc: the eviction thread ("none": no thread, "check",
\* "sub", "finally"); freed: evict_lru's return value; calls: account_dds
\* calls made so far
BudgetInit ==
    [on |-> TRUE,
     dds_budget |-> BudgetOf(TotalBudget, 40, 55, 5),
     dds_usage |-> 0,
     eviction_in_progress |-> FALSE,
     apc |-> "idle", wpc |-> "none", freed |-> 0, calls |-> 0]

BmInit ==
    /\ dds_files = [p \in Paths |-> NoFile]
    /\ ddm_files = [p \in Paths |-> NoDdm]
    /\ entries = <<>>
    /\ current_size = 0
    /\ jpeg_cleanups = {}
    /\ enabled = TRUE
    /\ compression \in CompressionModes
    /\ cfg_format = "BC1"
    /\ cfg_compressor = "ISPC"
    /\ bundle = [r \in Rows |-> 0]
    /\ now = 1
    /\ stored = [p \in Paths |-> NotStored]
    /\ last = Last("init", <<>>, FALSE, <<>>, NotStored)
    /\ threads = NoThreads
    /\ budget = BudgetInit

BmFrame ==
    UNCHANGED <<enabled, compression, cfg_format, cfg_compressor, bundle,
                stored, last, threads>>

\* the caller stores a tile that is not cached and calls account_dds with the
\* size written; account_dds's locked section adds it to the usage
BmStoreAndAccount(row, z, dds_bytes) ==
    LET tile == Tile(row, z, cfg_format)
        r    == store(W, Cfg, now, tile.id, z, dds_bytes, tile, FALSE, <<>>,
                      "none")
        size_bytes == Len(DiskImage(Cfg, dds_bytes).disk_bytes)
    IN  /\ budget.apc = "idle"
        /\ budget.calls < MaxAccounts
        /\ ~HasKey(entries, _tile_key(tile.id, z))
        /\ r.ret
        /\ SetW(r.w)
        /\ now' = now + 1
        /\ budget' = [budget EXCEPT
                         !.dds_usage = Max(0, @ + size_bytes),
                         !.apc = "check", !.calls = @ + 1]
        /\ BmFrame

\* the rest of account_dds: over budget -> _schedule_eviction, which starts
\* a thread unless _eviction_in_progress is set
BmSchedule ==
    /\ budget.apc = "check"
    /\ budget' = IF /\ budget.dds_usage > budget.dds_budget
                    /\ ~budget.eviction_in_progress
                 THEN [budget EXCEPT !.apc = "idle",
                                     !.eviction_in_progress = TRUE,
                                     !.wpc = "check"]
                 ELSE [budget EXCEPT !.apc = "idle"]
    /\ UNCHANGED <<cacheVars, threads>>

\* check_and_evict in the thread: the usage test and evict_lru(excess)
\* (tracked JPEG usage stays 0: the orphan clean-up never runs)
BmEvict ==
    /\ budget.wpc = "check"
    /\ LET excess == budget.dds_usage - (budget.dds_budget * 9) \div 10
           r      == evict_lru(W, excess)
       IN  IF budget.dds_usage > budget.dds_budget /\ excess > 0
           THEN /\ SetW(r.w)
                /\ budget' = [budget EXCEPT !.wpc = "sub", !.freed = r.ret]
           ELSE /\ budget' = [budget EXCEPT !.wpc = "finally"]
                /\ UNCHANGED <<dds_files, ddm_files, entries, current_size,
                               jpeg_cleanups>>
    /\ UNCHANGED now
    /\ BmFrame

\* with self._lock: self._dds_usage -= freed
BmSubtract ==
    /\ budget.wpc = "sub"
    /\ budget' = [budget EXCEPT !.dds_usage = @ - budget.freed, !.freed = 0,
                                !.wpc = "finally"]
    /\ UNCHANGED <<cacheVars, threads>>

\* finally: self._eviction_in_progress = False; the thread ends
BmFinally ==
    /\ budget.wpc = "finally"
    /\ budget' = [budget EXCEPT !.eviction_in_progress = FALSE, !.wpc = "none"]
    /\ UNCHANGED <<cacheVars, threads>>

BmNext ==
    \/ \E row \in Rows, z \in Zooms :
          \E dds_bytes \in {PatternBytes(Tile(row, z, "BC1").dds, 16),
                            NoiseBytes(Tile(row, z, "BC1").dds)} :
              BmStoreAndAccount(row, z, dds_bytes)
    \/ BmSchedule
    \/ BmEvict
    \/ BmSubtract
    \/ BmFinally

\* every call completes and the eviction thread runs to its end
BmFair ==
    /\ WF_vars(BmSchedule)
    /\ WF_vars(BmEvict)
    /\ WF_vars(BmSubtract)
    /\ WF_vars(BmFinally)

SpecBudget == BmInit /\ [][BmNext]_vars /\ BmFair

OverBudget == budget.on /\ budget.dds_usage > budget.dds_budget

WithinTarget == budget.on /\ 10 * budget.dds_usage <= 9 * budget.dds_budget

\* C10: under fair scheduling, once account_dds has raised the tracked DDS
\* usage above the DDS budget, the usage eventually is at most 0.9 x budget
\* with no further call by the caller, also when the call arrives while an
\* eviction thread is running.
EvictionRestoresBudget == OverBudget ~> WithinTarget

\* ------------------------------------------------------------------------
\* DiskBudgetManager.cleanup_stale_dds and scan_disk_usage
\* ------------------------------------------------------------------------

StaleMaxClock == 4

\* os.path.getsize(dds_path), 0 where the call raises OSError
DdsSize(w, p) == IF w.dds[p].exists THEN Len(w.dds[p].data) ELSE 0

\* faulty variant: nothing is added to `freed`
StaleFreedNone(w, c, p) == 0

\* what one .ddm of the walk adds to `freed`: the .dds size when the bundle of
\* a parseable DDM is gone
StaleFreed(w, c, p) ==
    IF w.ddm[p].exists /\ w.ddm[p].json_ok /\ c.bundle[p[1]] = 0
    THEN DdsSize(w, p) ELSE 0

RECURSIVE FreedSum(_, _, _)
FreedSum(w, c, ps) ==
    IF ps = {} THEN 0
    ELSE LET p == CHOOSE q \in ps : TRUE
         IN  StaleFreed(w, c, p) + FreedSum(w, c, ps \ {p})

\* returns [w, ret = count, dds_usage]
cleanup_stale_dds(w, c, dds_usage) ==
    LET gone  == {p \in Paths : /\ w.ddm[p].exists
                                /\ \/ ~w.ddm[p].json_ok
                                   \/ c.bundle[p[1]] = 0}
        freed == FreedSum(w, c, Paths)
    IN  [w |-> [w EXCEPT
                  !.dds = [p \in Paths |-> IF p \in gone THEN NoFile ELSE @[p]],
                  !.ddm = [p \in Paths |-> IF p \in gone THEN NoDdm ELSE @[p]]],
         ret |-> Cardinality(gone),
         dds_usage |-> IF freed > 0 THEN Max(0, dds_usage - freed) ELSE dds_usage]

RECURSIVE _scan_dir_size(_, _)
_scan_dir_size(w, ps) ==
    IF ps = {} THEN 0
    ELSE LET p == CHOOSE q \in ps : TRUE
         IN  DdsSize(w, p) + _scan_dir_size(w, ps \ {p})

StaleTiles == {<<21728, 16>>, <<21729, 17>>}

StaleInit ==
    /\ dds_files = [p \in Paths |-> NoFile]
    /\ ddm_files = [p \in Paths |-> NoDdm]
    /\ entries = <<>>
    /\ current_size = 0
    /\ jpeg_cleanups = {}
    /\ enabled = TRUE
    /\ compression \in CompressionModes
    /\ cfg_format = "BC1"
    /\ cfg_compressor = "ISPC"
    /\ bundle \in [Rows -> {0, 1}]
    /\ now = 2
    /\ stored = [p \in Paths |-> NotStored]
    /\ last = Last("init", <<>>, FALSE, <<>>, NotStored)
    /\ threads = NoThreads
    /\ budget = BudgetInit

SdStore(row, z, dds_bytes, bundle_path) ==
    LET tile == Tile(row, z, cfg_format)
        r    == store(W, Cfg, now, tile.id, z, dds_bytes, tile, bundle_path, <<>>,
                      "none")
    IN  /\ now < StaleMaxClock
        /\ SetW(r.w)
        /\ now' = now + 1
        /\ last' = Last("store", PathOf(tile, z), r.ret, <<>>, NotStored)
        /\ UNCHANGED <<threads, budget, enabled, compression, cfg_format,
                       cfg_compressor, bundle, stored>>

\* the bundle layer writes or evicts the bundle of a tile row
SdBundle(row, present) ==
    /\ (bundle[row] > 0) # present
    /\ bundle' = [bundle EXCEPT ![row] = IF present THEN now ELSE 0]
    /\ last' = Last("bundle", <<>>, TRUE, <<>>, NotStored)
    /\ UNCHANGED <<threads, budget, dds_files, ddm_files, entries, current_size,
                   jpeg_cleanups, enabled, compression, cfg_format,
                   cfg_compressor, now, stored>>

\* a .ddm that no longer parses
SdCorrupt(p) ==
    /\ ddm_files[p].exists
    /\ ddm_files[p].json_ok
    /\ ddm_files' = [ddm_files EXCEPT ![p].json_ok = FALSE]
    /\ last' = Last("corrupt", p, TRUE, <<>>, NotStored)
    /\ UNCHANGED <<threads, budget, dds_files, entries, current_size,
                   jpeg_cleanups, enabled, compression, cfg_format,
                   cfg_compressor, bundle, now, stored>>

\* scan_disk_usage: tracked DDS usage := the bytes of every .dds
SdScan ==
    /\ budget' = [budget EXCEPT !.dds_usage = _scan_dir_size(W, Paths)]
    /\ last' = Last("scan_disk_usage", <<>>, TRUE, <<>>, NotStored)
    /\ UNCHANGED <<threads, cacheVarsButLast>>

\* last.pre of a cleanup: the files and the usage when it was called
SdCleanup ==
    LET r == cleanup_stale_dds(W, Cfg, budget.dds_usage)
    IN  /\ SetW(r.w)
        /\ budget' = [budget EXCEPT !.dds_usage = r.dds_usage]
        /\ last' = LastN("cleanup_stale_dds", <<>>, TRUE, <<>>,
                         [dds |-> dds_files, ddm |-> ddm_files,
                          usage |-> budget.dds_usage], 0, r.ret)
        /\ UNCHANGED <<threads, enabled, compression, cfg_format,
                       cfg_compressor, bundle, now, stored>>

StaleNext ==
    \/ \E t \in StaleTiles :
          \E dds_bytes \in FullPayloads[t[2]]["BC1"] :
              SdStore(t[1], t[2], dds_bytes, bundle[t[1]] > 0)
    \/ \E row \in Rows, present \in BOOLEAN : SdBundle(row, present)
    \/ \E p \in Paths : SdCorrupt(p)
    \/ SdScan
    \/ SdCleanup

SpecStale == StaleInit /\ [][StaleNext]_vars

\* the pairs a cleanup found with a parseable DDM and no bundle
StaleOrphans ==
    {p \in Paths : /\ last.pre.ddm[p].exists
                   /\ last.pre.ddm[p].json_ok
                   /\ bundle[p[1]] = 0}

StaleCorrupt ==
    {p \in Paths : last.pre.ddm[p].exists /\ ~last.pre.ddm[p].json_ok}

RECURSIVE PreDdsBytes(_)
PreDdsBytes(ps) ==
    IF ps = {} THEN 0
    ELSE LET p == CHOOSE q \in ps : TRUE
         IN  (IF last.pre.dds[p].exists THEN Len(last.pre.dds[p].data) ELSE 0)
             + PreDdsBytes(ps \ {p})

\* the files and the count after a cleanup: orphans gone and counted once,
\* the parseable pairs with a bundle untouched
StaleFilesAndCount ==
    /\ \A p \in StaleOrphans : ~dds_files[p].exists /\ ~ddm_files[p].exists
    /\ last.num = Cardinality(StaleOrphans) + Cardinality(StaleCorrupt)
    /\ \A p \in Paths \ (StaleOrphans \cup StaleCorrupt) :
          /\ dds_files[p] = last.pre.dds[p]
          /\ ddm_files[p] = last.pre.ddm[p]

\* C11 as stated: cleanup_stale_dds deletes the .ddm and .dds of every DDM
\* whose bundle is absent, counts the pair once, leaves the other pairs
\* untouched, and lowers the tracked DDS usage by exactly the size of what it
\* deleted.
StaleCleanupLowersUsage ==
    last.op = "cleanup_stale_dds" =>
        /\ StaleFilesAndCount
        /\ budget.dds_usage = last.pre.usage - PreDdsBytes(StaleOrphans)

\* C11, amended: the same for files and count; the tracked DDS usage drops
\* by the bytes of the deleted .dds files of the orphaned pairs (the .ddm
\* bytes are not tracked) and stops at 0.
StaleCleanupExact ==
    last.op = "cleanup_stale_dds" =>
        /\ StaleFilesAndCount
        /\ budget.dds_usage =
              Max(0, last.pre.usage - PreDdsBytes(StaleOrphans))

\* a cleanup that removed an orphaned pair and lowered a scanned usage, with
\* another pair kept
StaleCleanupWitness ==
    /\ last.op = "cleanup_stale_dds"
    /\ StaleOrphans # {}
    /\ PreDdsBytes(StaleOrphans) > 0
    /\ budget.dds_usage > 0
    /\ budget.dds_usage < last.pre.usage
    /\ \E p \in Paths : dds_files[p].exists /\ ddm_files[p].exists

\* ------------------------------------------------------------------------
\* patch_missing_chunks as one call (no other thread on the key)
\*   healing: self._healing_in_progress; returns [w, ret]
\* ------------------------------------------------------------------------

_do_patch(w, c, time, tile, max_zoom, chunk_jpegs, tile_missing) ==
    LET path          == PathOf(tile, max_zoom)
        m             == _read_ddm(w, path)
        is_compressed == m.some /\ m.meta.disk_compression = "zstd"
        f             == w.dds[path]
        dec           == _decompress_dds(f.data, m.meta)
        stripes       == PatchStripes(tile, chunk_jpegs)
        w1 == IF is_compressed
              THEN WriteDds(w, path,
                            _compress_dds(c.compression,
                                          ApplyStripes(dec.data, stripes)), time)
              ELSE WriteDds(w, path, ApplyStripes(f.data, stripes), time)
        m1 == _read_ddm(w1, path)
        w2 == IF m1.some
              THEN _write_ddm(w1, path,
                              PatchedMeta(m1.meta, chunk_jpegs, tile_missing))
              ELSE w1
    IN  IF tile.chunks_per_row = 0 THEN [w |-> w, ret |-> FALSE]
        ELSE IF ~f.exists THEN [w |-> w, ret |-> FALSE]
        ELSE IF is_compressed /\ ~dec.ok THEN [w |-> w, ret |-> FALSE]
        ELSE [w |-> w2, ret |-> Patched(chunk_jpegs) = Len(chunk_jpegs)]

patch_missing_chunks(w, c, time, healing, tile_id, max_zoom, tile, chunk_jpegs, tile_missing) ==
    IF _tile_key(tile_id, max_zoom) \in healing THEN [w |-> w, ret |-> FALSE]
    ELSE _do_patch(w, c, time, tile, max_zoom, chunk_jpegs, tile_missing)

HealMaxClock == 4

HealTile == Tile(21728, 16, "BC1")

HealPath == PathOf(HealTile, 16)

\* chunk maps: all of <<0, 3>>, one of them undecodable, only chunk 0, none
HealJpegs == ChunkJpegs \cup {<<[idx |-> 0, ok |-> TRUE]>>, <<>>}

HlStore(dds_bytes, missing) ==
    LET r == store(W, Cfg, now, HealTile.id, 16, dds_bytes, HealTile, FALSE,
                   missing, "none")
    IN  /\ now < HealMaxClock
        /\ SetW(r.w)
        /\ now' = now + 1
        /\ stored' = [stored EXCEPT ![HealPath] =
                          IF r.ret THEN StoredPartial("store", dds_bytes, missing)
                          ELSE NotStored]
        /\ last' = Last("store", HealPath, r.ret, dds_bytes, stored[HealPath])
        /\ UNCHANGED <<threads, budget, enabled, compression, cfg_format,
                       cfg_compressor, bundle>>

\* the caller heals what the tile is known to lack: tile._dds_missing_indices
\* is what load took from the DDM.  last.arg: the chunk map; last.pre.missing:
\* the DDM's missing_indices before the call
HlPatch(chunk_jpegs) ==
    LET m       == _read_ddm(W, HealPath)
        missing == IF m.some THEN m.meta.missing_indices ELSE <<>>
        r       == patch_missing_chunks(W, Cfg, now, {}, HealTile.id, 16,
                                        HealTile, chunk_jpegs, missing)
    IN  /\ now < HealMaxClock
        /\ SetW(r.w)
        /\ now' = now + 1
        /\ last' = LastN("patch_missing_chunks", HealPath, r.ret, <<>>,
                         [stored[HealPath] EXCEPT !.missing = missing],
                         chunk_jpegs, 0)
        /\ UNCHANGED <<threads, budget, enabled, compression, cfg_format,
                       cfg_compressor, bundle, stored>>

HlLoad ==
    LET r == load(W, Cfg, now, HealTile.id, 16, HealTile)
    IN  /\ now < HealMaxClock
        /\ SetW(r.w)
        /\ now' = now + 1
        /\ stored' = [stored EXCEPT ![HealPath] = IF r.hit THEN @ ELSE NotStored]
        /\ last' = Last("load", HealPath, r.hit, r.data, stored[HealPath])
        /\ UNCHANGED <<threads, budget, enabled, compression, cfg_format,
                       cfg_compressor, bundle>>

HealNext ==
    \/ \E dds_bytes \in FullPayloads[16]["BC1"], missing \in MissingLists :
          HlStore(dds_bytes, missing)
    \/ \E chunk_jpegs \in HealJpegs : HlPatch(chunk_jpegs)
    \/ HlLoad

SpecHeal == CacheInit /\ [][HealNext]_vars

\* the chunk map covers every index of the missing list and all decode
CoversAll(chunk_jpegs, missing) ==
    /\ \A i \in 1..Len(missing) :
          \E j \in 1..Len(chunk_jpegs) : chunk_jpegs[j].idx = missing[i]
    /\ \A j \in 1..Len(chunk_jpegs) : chunk_jpegs[j].ok

\* C12: for an entry stored with missing set M, patch_missing_chunks with a
\* chunk map that covers all of M and decodes completely returns True and
\* leaves a DDM with needs_healing = false, healing_chunks = 0,
\* missing_indices = [] and mipmaps[0].complete = true, for raw and for zstd
\* files alike.
HealCompletes ==
    (/\ last.op = "patch_missing_chunks"
     /\ last.pre.some
     /\ CoversAll(last.arg, last.pre.missing))
        => /\ last.ok
           /\ ddm_files[HealPath].exists
           /\ ~ddm_files[HealPath].meta.needs_healing
           /\ ddm_files[HealPath].meta.healing_chunks = 0
           /\ ddm_files[HealPath].meta.missing_indices = <<>>
           /\ ddm_files[HealPath].meta.mipmaps[1].complete

\* a zstd entry that lacked chunks 0 and 3 has just been healed
HealCompletesWitness ==
    /\ last.op = "patch_missing_chunks"
    /\ last.pre.some
    /\ last.pre.missing = <<0, 3>>
    /\ CoversAll(last.arg, last.pre.missing)
    /\ last.ok
    /\ ddm_files[HealPath].exists
    /\ ddm_files[HealPath].meta.disk_compression = "zstd"

\* ------------------------------------------------------------------------
\* Two threads healing the same key: the guard set _healing_in_progress is
\* tested and then extended with no lock held
\* ------------------------------------------------------------------------

Healers == {1, 2}

\* pc: "idle", "checked" (the key was not in the set), "stripes" / "replace"
\* / "ddm" (inside _do_patch), "discard" (the finally clause), "done"
HealerInit ==
    [pc |-> "idle", jpegs |-> <<>>, todo |-> <<>>, buf |-> <<>>, ret |-> FALSE]

GuardInit ==
    /\ compression \in CompressionModes
    /\ enabled = TRUE
    /\ cfg_format = "BC1"
    /\ cfg_compressor = "ISPC"
    /\ bundle = [r \in Rows |-> 0]
    /\ now = 2
    /\ stored = [p \in Paths |-> NotStored]
    /\ last = Last("init", <<>>, FALSE, <<>>, NotStored)
    /\ budget = NoBudget
    /\ threads = [on |-> TRUE, healing |-> {},
                  h |-> [t \in Healers |-> HealerInit]]
    /\ \E b0 \in FullPayloads[16]["BC1"] :
          LET c  == [enabled |-> TRUE, compression |-> compression,
                     format |-> "BC1", compressor |-> "ISPC",
                     bundle |-> [r \in Rows |-> 0]]
              w0 == store(EmptyW, c, 1, ConcTile.id, 16, b0, ConcTile, FALSE,
                          ConcMissing, "none").w
          IN  /\ dds_files = w0.dds
              /\ ddm_files = w0.ddm
              /\ entries = w0.entries
              /\ current_size = w0.current_size
              /\ jpeg_cleanups = w0.jpeg_cleanups

InDoPatch(t) == threads.h[t].pc \in {"stripes", "replace", "ddm"}

\* if key in self._healing_in_progress: return False
GdCheck(t) ==
    /\ threads.h[t].pc = "idle"
    /\ threads' = [threads EXCEPT !.h[t].pc =
                      IF ConcKey \in threads.healing THEN "done" ELSE "checked"]
    /\ UNCHANGED <<cacheVars, budget>>

\* self._healing_in_progress.add(key), then _do_patch up to the file being
\* read and patched in memory (zstd) or opened "r+b" (raw)
GdEnter(t, chunk_jpegs) ==
    /\ threads.h[t].pc = "checked"
    /\ LET m             == _read_ddm(W, ConcPath)
           is_compressed == m.some /\ m.meta.disk_compression = "zstd"
           f             == dds_files[ConcPath]
           dec           == _decompress_dds(f.data, m.meta)
           stripes       == PatchStripes(ConcTile, chunk_jpegs)
           me            == [threads.h[t] EXCEPT !.jpegs = chunk_jpegs]
       IN  threads' =
             [threads EXCEPT
                !.healing = @ \cup {ConcKey},
                !.h[t] =
                   IF ~f.exists \/ (is_compressed /\ ~dec.ok)
                   THEN [me EXCEPT !.pc = "discard"]
                   ELSE IF is_compressed
                   THEN [me EXCEPT !.pc = "replace",
                                   !.buf = ApplyStripes(dec.data, stripes)]
                   ELSE [me EXCEPT !.pc = "stripes", !.todo = stripes]]
    /\ UNCHANGED <<cacheVars, budget>>

\* one f.seek(file_offset); f.write(stripe)
GdStripe(t) ==
    /\ threads.h[t].pc = "stripes"
    /\ LET todo == threads.h[t].todo
       IN  /\ todo # <<>>
           /\ dds_files' =
                 [dds_files EXCEPT ![ConcPath] =
                     File(SeekWrite(@.data, todo[1].offset, todo[1].stripe), now)]
           /\ threads' = [threads EXCEPT
                             !.h[t].todo = Tail(todo),
                             !.h[t].pc = IF Len(todo) = 1 THEN "ddm" ELSE @]
    /\ UNCHANGED <<ddm_files, entries, current_size, jpeg_cleanups>>
    /\ ConcFrame

\* recompress, temp file, os.replace(tmp, dds_path)
GdReplace(t) ==
    /\ threads.h[t].pc = "replace"
    /\ SetW(WriteDds(W, ConcPath, _compress_dds(compression, threads.h[t].buf),
                     now))
    /\ threads' = [threads EXCEPT !.h[t].pc = "ddm"]
    /\ ConcFrame

\* the DDM read again and rewritten
GdDdm(t) ==
    /\ threads.h[t].pc = "ddm"
    /\ LET m == _read_ddm(W, ConcPath)
       IN  SetW(IF m.some
                THEN _write_ddm(W, ConcPath,
                                PatchedMeta(m.meta, threads.h[t].jpegs,
                                            ConcMissing))
                ELSE W)
    /\ threads' = [threads EXCEPT
                      !.h[t].pc = "discard",
                      !.h[t].ret = Patched(threads.h[t].jpegs)
                                       = Len(threads.h[t].jpegs)]
    /\ ConcFrame

\* finally: self._healing_in_progress.discard(key)
GdDiscard(t) ==
    /\ threads.h[t].pc = "discard"
    /\ threads' = [threads EXCEPT !.healing = @ \ {ConcKey},
                                  !.h[t].pc = "done"]
    /\ UNCHANGED <<cacheVars, budget>>

GuardNext ==
    \/ \E t \in Healers : GdCheck(t)
    \/ \E t \in Healers, chunk_jpegs \in ChunkJpegs : GdEnter(t, chunk_jpegs)
    \/ \E t \in Healers : GdStripe(t)
    \/ \E t \in Healers : GdReplace(t)
    \/ \E t \in Healers : GdDdm(t)
    \/ \E t \in Healers : GdDiscard(t)

SpecGuard == GuardInit /\ [][GuardNext]_vars

\* C13: of two threads that call patch_missing_chunks concurrently for the
\* same (tile_id, max_zoom), at most one is inside _do_patch at a time.
OneHealerPerKey ==
    ("healing" \in DOMAIN threads)
        => Cardinality({t \in Healers : InDoPatch(t)}) <= 1

\* ------------------------------------------------------------------------
\* store_incremental
\*   mipmap_data: <<[idx, data], ...>> (a dict, in insertion order);
\*   mipmap_offsets: idx -> [startpos, length];  `tile` carries row, col,
\*   maptype, tilename_zoom, width, height and mm_count
\* ------------------------------------------------------------------------

RECURSIVE SortedSeq(_)
SortedSeq(S) ==
    IF S = {} THEN <<>>
    ELSE LET x == CHOOSE y \in S : \A z \in S : y <= z
         IN  <<x>> \o SortedSeq(S \ {x})

SeqSet(s) == {s[i] : i \in 1..Len(s)}

_build_ddm_incremental(tile, max_zoom, dds_format, compressor, populated_mipmaps, built) ==
    [v |-> DDM_VERSION,
     w |-> tile.dds.width,
     h |-> tile.dds.height,
     mm |-> tile.dds.mipMapCount,
     zl |-> tile.tilename_zoom,
     max_zl |-> max_zoom,
     fmt |-> dds_format,
     comp |-> compressor,
     map |-> tile.maptype,
     bundle_mtime |-> 0,
     built |-> built,
     tile_row |-> tile.row,
     tile_col |-> tile.col,
     mipmaps |-> [j \in 1..tile.dds.mipMapCount |->
                     [zl |-> MipmapZl(max_zoom, j - 1),
                      complete |-> (j - 1) \in populated_mipmaps]],
     populated_mipmaps |-> SortedSeq(populated_mipmaps),
     needs_healing |-> FALSE,
     healing_chunks |-> 0,
     missing_indices |-> <<>>,
     disk_compression |-> "none"]

\* header_bytes written, then f.truncate(total_size)
_create_dds_skeleton(w, dds_path, header_bytes, total_size, time) ==
    [w EXCEPT !.dds[dds_path] =
        File(IF Len(header_bytes) >= total_size
             THEN Slice(header_bytes, 0, total_size)
             ELSE header_bytes \o Fill(total_size - Len(header_bytes), 0),
             time)]

\* the size test of step 4: a buffer of another length is skipped
MipmapFits(data, length) == Len(data) = length

\* step 4 on the bytes of the open file
RECURSIVE WriteMipmaps(_, _, _)
WriteMipmaps(bytes, new_mipmaps, mipmap_offsets) ==
    IF new_mipmaps = <<>> THEN bytes
    ELSE LET idx == new_mipmaps[1].idx
             off == mipmap_offsets[idx]
         IN  WriteMipmaps(IF MipmapFits(new_mipmaps[1].data, off.length)
                          THEN SeekWrite(bytes, off.startpos, new_mipmaps[1].data)
                          ELSE bytes,
                          Tail(new_mipmaps), mipmap_offsets)

\* faulty variant: the DDM of an earlier call is not consulted
AlreadyPopulatedNone(w, path) == {}

\* step 1: populated_mipmaps of the DDM an earlier call left
AlreadyPopulated(w, path) ==
    LET existing_meta == _read_ddm(w, path)
    IN  IF existing_meta.some
        THEN SeqSet(existing_meta.meta.populated_mipmaps) ELSE {}

store_incremental(w, c, time, tile_id, max_zoom, tile, header_bytes, total_size, mipmap_data, mipmap_offsets) ==
    LET path    == PathOf(tile, max_zoom)
        already_populated == AlreadyPopulated(w, path)
        new_mipmaps == SelectSeq(mipmap_data,
                                 LAMBDA e : e.idx \notin already_populated)
        w1      == IF w.dds[path].exists THEN w
                   ELSE _create_dds_skeleton(w, path, header_bytes, total_size,
                                             time)
        w2      == [w1 EXCEPT !.dds[path] =
                       File(WriteMipmaps(w1.dds[path].data, new_mipmaps,
                                         mipmap_offsets), time)]
        merged_populated == already_populated
                               \cup {new_mipmaps[i].idx : i \in 1..Len(new_mipmaps)}
        fc      == _get_format_and_compressor(c)
        meta    == _build_ddm_incremental(tile, max_zoom, fc.fmt, fc.comp,
                                          merged_populated, time)
        w3      == _write_ddm(w2, path, meta)
        w4      == LruStore(w3, _tile_key(tile_id, max_zoom), path,
                            Len(w3.dds[path].data), time)
    IN  IF ~c.enabled \/ mipmap_data = <<>> THEN [w |-> w, ret |-> FALSE]
        ELSE IF new_mipmaps = <<>> THEN [w |-> w, ret |-> TRUE]
        ELSE [w |-> w4, ret |-> TRUE]

\* ------------------------------------------------------------------------
\* Specification: a builder saving one tile mipmap by mipmap
\*   stored[IncrPath] records what the callers handed over: data[idx + 1] is
\*   the first buffer of the right length offered for mipmap idx (<<>> when
\*   none was), missing the indices offered with a buffer of another length
\* ------------------------------------------------------------------------

IncrMaxClock == 4

IncrTile == Tile(21728, 15, "BC1")

IncrPath == PathOf(IncrTile, 15)

IncrIdx == 0..(IncrTile.dds.mipMapCount - 1)

\* {idx: (startpos, length)} of the tile's DDS
IncrOffsets ==
    [idx \in IncrIdx |->
        [startpos |-> IncrTile.dds.mipmap_list[idx + 1].startpos,
         length |-> IncrTile.dds.mipmap_list[idx + 1].length]]

\* the buffers a caller may hand over for mipmap idx: the mipmap of the
\* sample image, another image's mipmap, a buffer one byte short
IncrBuffers(idx) ==
    {Fill(IncrOffsets[idx].length, 16 + idx),
     Fill(IncrOffsets[idx].length, 80 + idx),
     Fill(IncrOffsets[idx].length - 1, 16 + idx)}

\* dicts of at most two mipmaps
IncrDicts ==
    {<<>>}
    \cup {<<[idx |-> i, data |-> d]>> : i \in IncrIdx, d \in UNION {IncrBuffers(j) : j \in IncrIdx}}
    \cup {<<[idx |-> i, data |-> d], [idx |-> i + 1, data |-> e]>> :
            i \in IncrIdx,
            d \in UNION {IncrBuffers(k) : k \in IncrIdx},
            e \in UNION {IncrBuffers(k) : k \in IncrIdx}}

\* each buffer is one the caller made for the index it is filed under
WellFormedDict(mipmap_data) ==
    \A i \in 1..Len(mipmap_data) :
        /\ mipmap_data[i].idx \in IncrIdx
        /\ mipmap_data[i].data \in IncrBuffers(mipmap_data[i].idx)

Offered(s, idx) == IF s.some THEN s.data[idx + 1] ELSE <<>>

\* what the callers have handed over once mipmap_data is added
OfferedAfter(s, mipmap_data) ==
    LET has(idx) == \E i \in 1..Len(mipmap_data) : mipmap_data[i].idx = idx
        buf(idx) == mipmap_data[CHOOSE i \in 1..Len(mipmap_data) :
                                    mipmap_data[i].idx = idx].data
        fits(idx) == Len(buf(idx)) = IncrOffsets[idx].length
    IN  [s EXCEPT
           !.some = TRUE,
           !.via = "store_incremental",
           !.data = [j \in 1..Cardinality(IncrIdx) |->
                       IF Offered(s, j - 1) = <<>> /\ has(j - 1) /\ fits(j - 1)
                       THEN buf(j - 1) ELSE Offered(s, j - 1)],
           !.missing = SortedSeq(SeqSet(s.missing)
                                 \cup {idx \in IncrIdx : has(idx) /\ ~fits(idx)})]

InStoreIncremental(mipmap_data) ==
    LET r == store_incremental(W, Cfg, now, IncrTile.id, 15, IncrTile,
                               IncrTile.dds.header, IncrTile.dds.total_size,
                               mipmap_data, IncrOffsets)
    IN  /\ now < IncrMaxClock
        /\ WellFormedDict(mipmap_data)
        /\ SetW(r.w)
        /\ now' = now + 1
        /\ stored' = [stored EXCEPT ![IncrPath] =
                         IF r.ret THEN OfferedAfter(@, mipmap_data) ELSE @]
        /\ last' = LastN("store_incremental", IncrPath, r.ret, <<>>,
                         stored[IncrPath], mipmap_data, 0)
        /\ UNCHANGED <<threads, budget, enabled, compression, cfg_format,
                       cfg_compressor, bundle>>

IncrNext == \E mipmap_data \in IncrDicts : InStoreIncremental(mipmap_data)

SpecIncr == CacheInit /\ [][IncrNext]_vars

\* the bytes of mipmap idx in the DDS file
MipmapOnDisk(idx) ==
    Slice(dds_files[IncrPath].data, IncrOffsets[idx].startpos,
          IncrOffsets[idx].startpos + IncrOffsets[idx].length)

PopulatedOnDisk ==
    IF ddm_files[IncrPath].exists /\ ddm_files[IncrPath].json_ok
    THEN SeqSet(ddm_files[IncrPath].meta.populated_mipmaps) ELSE {}

\* C16: after any sequence of store_incremental calls, every index listed in
\* the DDM's populated_mipmaps has had its whole byte range written with the
\* caller's data, and an index whose data was skipped for its length is not
\* listed.
PopulatedIsWritten ==
    \A idx \in PopulatedOnDisk :
        /\ Offered(stored[IncrPath], idx) # <<>>
        /\ MipmapOnDisk(idx) = Offered(stored[IncrPath], idx)

OfferedIdx == {idx \in IncrIdx : Offered(stored[IncrPath], idx) # <<>>}

RECURSIVE ConcatOffered(_)
ConcatOffered(n) ==
    IF n = 0 THEN IncrTile.dds.header
    ELSE ConcatOffered(n - 1) \o Offered(stored[IncrPath], n - 1)

\* the uncompressed bytes a single store of dds_bytes leaves on an empty disk
SingleStore(dds_bytes) ==
    LET r == store([W EXCEPT !.dds = [p \in Paths |-> NoFile],
                             !.ddm = [p \in Paths |-> NoDdm],
                             !.entries = <<>>, !.current_size = 0],
                   Cfg, now, IncrTile.id, 15, dds_bytes, IncrTile, FALSE, <<>>,
                   "none")
    IN  _decompress_dds(r.w.dds[IncrPath].data, r.w.ddm[IncrPath].meta).data

\* C17: when every buffer handed to a sequence of store_incremental calls
\* has the length of its mipmap, populated_mipmaps is the union of the
\* indices handed over, each of them holds the first buffer handed over for
\* it (a repeat does not rewrite it), and once every index has been handed
\* over the DDS file is the header followed by all mipmaps, the bytes a single
\* store of that image gives.
IncrementalEqualsStore ==
    (stored[IncrPath].some /\ stored[IncrPath].missing = <<>>)
        => /\ PopulatedOnDisk = OfferedIdx
           /\ \A idx \in OfferedIdx :
                 MipmapOnDisk(idx) = Offered(stored[IncrPath], idx)
           /\ OfferedIdx = IncrIdx
                 => /\ dds_files[IncrPath].data
                          = ConcatOffered(Cardinality(IncrIdx))
                    /\ dds_files[IncrPath].data
                          = SingleStore(ConcatOffered(Cardinality(IncrIdx)))

\* the tile became whole by a call that also repeated, with another buffer,
\* an index an earlier call had populated
IncrementalEqualsStoreWitness ==
    /\ last.op = "store_incremental"
    /\ last.ok
    /\ stored[IncrPath].some
    /\ stored[IncrPath].missing = <<>>
    /\ OfferedIdx = IncrIdx
    /\ last.pre.some
    /\ \E i \in 1..Len(last.arg) :
          /\ Offered(last.pre, last.arg[i].idx) # <<>>
          /\ Offered(last.pre, last.arg[i].idx) # last.arg[i].data
    /\ \E i \in 1..Len(last.arg) : Offered(last.pre, last.arg[i].idx) = <<>>
    /\ dds_files[IncrPath].data = ConcatOffered(Cardinality(IncrIdx))

\* ------------------------------------------------------------------------
\* Specification: every writer of a DDM and of an LRU entry, on one tile,
\* across sessions (a new session starts with an empty LRU; its startup scan
\* runs in a background thread, so a load may come first)
\* ------------------------------------------------------------------------

MetaMaxClock == 5

\* the tile, and the same tile as an object that carries no chunk grid
MetaTiles == {HealTile, [HealTile EXCEPT !.chunks_per_row = 0]}

MetaOffsets ==
    [idx \in 0..(HealTile.dds.mipMapCount - 1) |->
        [startpos |-> HealTile.dds.mipmap_list[idx + 1].startpos,
         length |-> HealTile.dds.mipmap_list[idx + 1].length]]

\* one mipmap of the sample image per call
MetaDicts ==
    {<<[idx |-> i, data |-> Fill(MetaOffsets[i].length, 16 + i)]>> :
        i \in DOMAIN MetaOffsets}

MetaFrame ==
    UNCHANGED <<threads, budget, enabled, compression, cfg_format,
                cfg_compressor, bundle, stored>>

\* a tile without a chunk grid has no missing chunks to report
MtStore(tile, dds_bytes, missing) ==
    LET r == store(W, Cfg, now, tile.id, 16, dds_bytes, tile, FALSE, missing,
                   "none")
    IN  /\ now < MetaMaxClock
        /\ tile.chunks_per_row = 0 => missing = <<>>
        /\ SetW(r.w)
        /\ now' = now + 1
        /\ last' = LastN("store", HealPath, r.ret, <<>>, NotStored, missing,
                         tile.chunks_per_row)
        /\ MetaFrame

MtStoreFromFile(dds_bytes, missing) ==
    LET r == store_from_file(W, Cfg, now, HealTile.id, 16, File(dds_bytes, now),
                             FALSE, HealTile, missing, "none")
    IN  /\ now < MetaMaxClock
        /\ SetW(r.w)
        /\ now' = now + 1
        /\ last' = LastN("store_from_file", HealPath, r.ret, <<>>, NotStored,
                         missing, HealTile.chunks_per_row)
        /\ MetaFrame

MtStoreIncremental(mipmap_data) ==
    LET r == store_incremental(W, Cfg, now, HealTile.id, 16, HealTile,
                               HealTile.dds.header, HealTile.dds.total_size,
                               mipmap_data, MetaOffsets)
    IN  /\ now < MetaMaxClock
        /\ SetW(r.w)
        /\ now' = now + 1
        /\ last' = LastN("store_incremental", HealPath, r.ret, <<>>, NotStored,
                         mipmap_data, HealTile.chunks_per_row)
        /\ MetaFrame

\* the caller heals what load reported: the DDM's missing_indices
MtPatch(chunk_jpegs) ==
    LET m       == _read_ddm(W, HealPath)
        missing == IF m.some THEN m.meta.missing_indices ELSE <<>>
        r       == patch_missing_chunks(W, Cfg, now, {}, HealTile.id, 16,
                                        HealTile, chunk_jpegs, missing)
    IN  /\ now < MetaMaxClock
        /\ SetW(r.w)
        /\ now' = now + 1
        /\ last' = LastN("patch_missing_chunks", HealPath, r.ret, <<>>,
                         NotStored, chunk_jpegs, HealTile.chunks_per_row)
        /\ MetaFrame

MtLoad ==
    LET r == load(W, Cfg, now, HealTile.id, 16, HealTile)
    IN  /\ now < MetaMaxClock
        /\ SetW(r.w)
        /\ now' = now + 1
        /\ last' = LastN("load", HealPath, r.hit, <<>>, NotStored, 0,
                         HealTile.chunks_per_row)
        /\ MetaFrame

MtScan ==
    LET r == scan_existing(W, Cfg)
    IN  /\ now < MetaMaxClock
        /\ SetW(r.w)
        /\ now' = now + 1
        /\ last' = LastN("scan_existing", <<>>, TRUE, <<>>, NotStored, 0, r.ret)
        /\ MetaFrame

\* the process ends and a new one constructs the cache on the same disk
MtNewSession ==
    /\ now < MetaMaxClock
    /\ entries # <<>>
    /\ entries' = <<>>
    /\ current_size' = 0
    /\ jpeg_cleanups' = {}
    /\ now' = now + 1
    /\ last' = Last("__init__", <<>>, TRUE, <<>>, NotStored)
    /\ UNCHANGED <<dds_files, ddm_files>>
    /\ MetaFrame

MetaNext ==
    \/ \E tile \in MetaTiles, dds_bytes \in FullPayloads[16]["BC1"],
          missing \in MissingLists : MtStore(tile, dds_bytes, missing)
    \/ \E dds_bytes \in FullPayloads[16]["BC1"], missing \in MissingLists :
          MtStoreFromFile(dds_bytes, missing)
    \/ \E mipmap_data \in MetaDicts : MtStoreIncremental(mipmap_data)
    \/ \E chunk_jpegs \in HealJpegs : MtPatch(chunk_jpegs)
    \/ MtLoad
    \/ MtScan
    \/ MtNewSession

SpecMeta == CacheInit /\ [][MetaNext]_vars

\* (I4) on a DDM
HealingFieldsAgree(meta) ==
    LET mm0 == meta.mipmaps[1]
    IN  /\ meta.needs_healing <=> (meta.missing_indices # <<>>)
        /\ meta.healing_chunks = Len(meta.missing_indices)
        /\ "total" \in DOMAIN mm0
        /\ "valid" \in DOMAIN mm0
        /\ mm0.valid = mm0.total - Len(meta.missing_indices)
        /\ mm0.complete <=> (meta.healing_chunks = 0)

\* C14: every DDM written by store, store_from_file, store_incremental or
\* patch_missing_chunks, for a tile with or without a chunk grid, has
\* needs_healing true iff missing_indices is non-empty, healing_chunks equal
\* to the length of missing_indices, mipmaps[0].valid = mipmaps[0].total
\* minus that length, and mipmaps[0].complete true iff healing_chunks = 0.
DdmHealingConsistent ==
    \A p \in Paths :
        (ddm_files[p].exists /\ ddm_files[p].json_ok)
            => HealingFieldsAgree(ddm_files[p].meta)

\* C15: after any sequence of completed store, store_from_file,
\* store_incremental, load, patch_missing_chunks and scan_existing calls, the
\* size of each LRU entry is the size of its .dds file on disk.
LruSizeIsDiskSize ==
    \A i \in 1..Len(entries) :
        dds_files[entries[i].path].exists
            => entries[i].size = Len(dds_files[entries[i].path].data)

\* ------------------------------------------------------------------------
\* Specification: two threads in store_incremental for the same tile.
\*   store_incremental takes self._lock only for its LRU section; each thread
\*   goes through: read the DDM (step 1, 2), test os.path.isfile (step 3),
\*   create the skeleton, write its mipmaps (step 4), write the DDM (step 5),
\*   update the LRU (step 6)
\* ------------------------------------------------------------------------

Writers == {1, 2}

WriterInit ==
    [pc |-> "idle", already_populated |-> {}, new_mipmaps |-> <<>>,
     ret |-> FALSE]

\* dicts of one or two mipmaps of the sample image
WriterDicts ==
    {<<[idx |-> i, data |-> Fill(IncrOffsets[i].length, 16 + i)]>> : i \in IncrIdx}
    \cup {<<[idx |-> q[1], data |-> Fill(IncrOffsets[q[1]].length, 16 + q[1])],
            [idx |-> q[2], data |-> Fill(IncrOffsets[q[2]].length, 16 + q[2])]>> :
            q \in {r \in IncrIdx \X IncrIdx : r[1] < r[2]}}

WritersInit ==
    /\ dds_files = [p \in Paths |-> NoFile]
    /\ ddm_files = [p \in Paths |-> NoDdm]
    /\ entries = <<>>
    /\ current_size = 0
    /\ jpeg_cleanups = {}
    /\ enabled = TRUE
    /\ compression = "none"
    /\ cfg_format = "BC1"
    /\ cfg_compressor = "ISPC"
    /\ bundle = [r \in Rows |-> 0]
    /\ now = 1
    /\ stored = [p \in Paths |-> NotStored]
    /\ last = Last("init", <<>>, FALSE, <<>>, NotStored)
    /\ threads = [on |-> TRUE, h |-> [t \in Writers |-> WriterInit]]
    /\ budget = NoBudget

WritersFrame ==
    UNCHANGED <<jpeg_cleanups, enabled, compression, cfg_format, cfg_compressor,
                bundle, now, stored, last, budget>>

\* steps 1 and 2: already_populated, new_mipmaps; nothing new returns True
ScRead(t, mipmap_data) ==
    LET already_populated == AlreadyPopulated(W, IncrPath)
        new_mipmaps == SelectSeq(mipmap_data,
                                 LAMBDA e : e.idx \notin already_populated)
    IN  /\ threads.h[t].pc = "idle"
        /\ threads' = [threads EXCEPT !.h[t] =
              [pc |-> IF new_mipmaps = <<>> THEN "done" ELSE "isfile",
               already_populated |-> already_populated,
               new_mipmaps |-> new_mipmaps,
               ret |-> new_mipmaps = <<>>]]
        /\ UNCHANGED <<dds_files, ddm_files, entries, current_size>>
        /\ WritersFrame

\* step 3, the test
ScIsFile(t) ==
    /\ threads.h[t].pc = "isfile"
    /\ threads' = [threads EXCEPT !.h[t].pc =
                      IF dds_files[IncrPath].exists THEN "write" ELSE "skeleton"]
    /\ UNCHANGED <<dds_files, ddm_files, entries, current_size>>
    /\ WritersFrame

\* step 3, _create_dds_skeleton: the temp file replaces whatever is there
ScSkeleton(t) ==
    /\ threads.h[t].pc = "skeleton"
    /\ dds_files' = _create_dds_skeleton(W, IncrPath, IncrTile.dds.header,
                                         IncrTile.dds.total_size, now).dds
    /\ threads' = [threads EXCEPT !.h[t].pc = "write"]
    /\ UNCHANGED <<ddm_files, entries, current_size>>
    /\ WritersFrame

\* step 4: open r+b, seek and write each new mipmap, close
ScWrite(t) ==
    /\ threads.h[t].pc = "write"
    /\ dds_files[IncrPath].exists
    /\ dds_files' = [dds_files EXCEPT ![IncrPath] =
                        File(WriteMipmaps(@.data, threads.h[t].new_mipmaps,
                                          IncrOffsets), now)]
    /\ threads' = [threads EXCEPT !.h[t].pc = "ddm"]
    /\ UNCHANGED <<ddm_files, entries, current_size>>
    /\ WritersFrame

\* step 5: the DDM is rebuilt from what this thread read in step 1
ScDdm(t) ==
    LET h  == threads.h[t]
        merged_populated == h.already_populated
                               \cup {h.new_mipmaps[i].idx : i \in 1..Len(h.new_mipmaps)}
        fc == _get_format_and_compressor(Cfg)
    IN  /\ h.pc = "ddm"
        /\ ddm_files' = _write_ddm(W, IncrPath,
                            _build_ddm_incremental(IncrTile, 15, fc.fmt, fc.comp,
                                                   merged_populated, now)).ddm
        /\ threads' = [threads EXCEPT !.h[t].pc = "lru"]
        /\ UNCHANGED <<dds_files, entries, current_size>>
        /\ WritersFrame

\* step 6, under self._lock
ScLru(t) ==
    LET w == LruStore(W, _tile_key(IncrTile.id, 15), IncrPath,
                      Len(dds_files[IncrPath].data), now)
    IN  /\ threads.h[t].pc = "lru"
        /\ entries' = w.entries
        /\ current_size' = w.current_size
        /\ threads' = [threads EXCEPT !.h[t].pc = "done", !.h[t].ret = TRUE]
        /\ UNCHANGED <<dds_files, ddm_files>>
        /\ WritersFrame

WritersNext ==
    \E t \in Writers :
        \/ \E mipmap_data \in WriterDicts : ScRead(t, mipmap_data)
        \/ ScIsFile(t)
        \/ ScSkeleton(t)
        \/ ScWrite(t)
        \/ ScDdm(t)
        \/ ScLru(t)

SpecWriters == WritersInit /\ [][WritersNext]_vars

\* the indices the two calls wrote
WrittenByCalls ==
    UNION {{threads.h[t].new_mipmaps[i].idx :
               i \in 1..Len(threads.h[t].new_mipmaps)} : t \in Writers}

\* C18: when two threads run store_incremental for the same tile
\* concurrently, then after both have returned populated_mipmaps is the union
\* of the indices the two calls wrote and the DDS holds the data of every
\* index of that union.
WritersConverge ==
    (threads.on /\ \A t \in Writers : threads.h[t].pc = "done")
        => /\ PopulatedOnDisk = WrittenByCalls
           /\ \A idx \in WrittenByCalls :
                 MipmapOnDisk(idx) = Fill(IncrOffsets[idx].length, 16 + idx)

\* ------------------------------------------------------------------------
\* Specification: the startup scan over what earlier sessions left
\*   per tile: nothing, a pair, a .dds whose .ddm was never written (a kill
\*   between the two renames), a .dds whose .ddm is not JSON (a torn write)
\* ------------------------------------------------------------------------

ScanMaxClock == 7

ScanTiles == <<<<21728, 16>>, <<21729, 16>>, <<21728, 15>>>>

LeftKinds == {"none", "pair", "no_ddm", "bad_ddm"}

\* the files of tile k (written at time k) in a disk left as `kinds`
LeftBy(kinds, comp, k) ==
    LET c == [enabled |-> TRUE, compression |-> comp, format |-> "BC1",
              compressor |-> "ISPC", bundle |-> [r \in Rows |-> 0]]
        t == Tile(ScanTiles[k][1], ScanTiles[k][2], "BC1")
        p == PathOf(t, ScanTiles[k][2])
        w == store(EmptyW, c, k, t.id, ScanTiles[k][2],
                   PatternBytes(t.dds, 16), t, FALSE, <<>>, "none").w
    IN  [dds |-> IF kinds[k] = "none" THEN NoFile ELSE w.dds[p],
         ddm |-> CASE kinds[k] = "pair" -> w.ddm[p]
                   [] kinds[k] = "bad_ddm" -> [w.ddm[p] EXCEPT !.json_ok = FALSE]
                   [] OTHER -> NoDdm]

ScanInit ==
    /\ compression \in CompressionModes
    /\ \E kinds \in [1..Len(ScanTiles) -> LeftKinds] :
          LET at(p) == {k \in 1..Len(ScanTiles) :
                           p = PathOf(Tile(ScanTiles[k][1], ScanTiles[k][2], "BC1"),
                                      ScanTiles[k][2])}
          IN  /\ dds_files = [p \in Paths |->
                    IF at(p) = {} THEN NoFile
                    ELSE LeftBy(kinds, compression, CHOOSE k \in at(p) : TRUE).dds]
              /\ ddm_files = [p \in Paths |->
                    IF at(p) = {} THEN NoDdm
                    ELSE LeftBy(kinds, compression, CHOOSE k \in at(p) : TRUE).ddm]
    /\ entries = <<>>
    /\ current_size = 0
    /\ jpeg_cleanups = {}
    /\ enabled = TRUE
    /\ cfg_format = "BC1"
    /\ cfg_compressor = "ISPC"
    /\ bundle = [r \in Rows |-> 0]
    /\ now = 4
    /\ stored = [p \in Paths |-> NotStored]
    /\ last = Last("init", <<>>, FALSE, <<>>, NotStored)
    /\ threads = NoThreads
    /\ budget = NoBudget

ScanFrame ==
    UNCHANGED <<threads, budget, enabled, compression, cfg_format,
                cfg_compressor, bundle, stored>>

\* a load that comes before the background scan
SnLoad(k) ==
    LET tile == Tile(ScanTiles[k][1], ScanTiles[k][2], cfg_format)
        r    == load(W, Cfg, now, tile.id, ScanTiles[k][2], tile)
    IN  /\ now < ScanMaxClock
        /\ SetW(r.w)
        /\ now' = now + 1
        /\ last' = Last("load", PathOf(tile, ScanTiles[k][2]), r.hit, <<>>,
                        NotStored)
        /\ ScanFrame

\* last.pre: the disk and the LRU as the scan found them; last.num: its count
SnScan ==
    LET r == scan_existing(W, Cfg)
    IN  /\ now < ScanMaxClock
        /\ SetW(r.w)
        /\ now' = now + 1
        /\ last' = LastN("scan_existing", <<>>, TRUE, <<>>,
                         [dds |-> dds_files, ddm |-> ddm_files,
                          entries |-> entries, current_size |-> current_size],
                         0, r.ret)
        /\ ScanFrame

ScanNext ==
    \/ \E k \in 1..Len(ScanTiles) : SnLoad(k)
    \/ SnScan

SpecScan == ScanInit /\ [][ScanNext]_vars

\* the .dds files the scan found with a .ddm that parses, not yet tracked
Trackable(pre) ==
    {p \in Paths : /\ pre.dds[p].exists
                   /\ pre.ddm[p].exists /\ pre.ddm[p].json_ok
                   /\ \A i \in 1..Len(pre.entries) : pre.entries[i].path # p}

\* the .dds files the scan found with no .ddm or with one that does not parse
Untrackable(pre) ==
    {p \in Paths : /\ pre.dds[p].exists
                   /\ ~(pre.ddm[p].exists /\ pre.ddm[p].json_ok)}

RECURSIVE SumLen(_, _)
SumLen(files, ps) ==
    IF ps = {} THEN 0
    ELSE LET p == CHOOSE q \in ps : TRUE
         IN  Len(files[p].data) + SumLen(files, ps \ {p})

\* C19: scan_existing adds to the LRU exactly the .dds files that have a
\* parseable .ddm, each once and with the file's mtime as recency, and deletes
\* every .dds that has no .ddm or whose .ddm cannot be parsed; such a file
\* adds nothing to the returned count and to the tracked usage.
ScanTracksAndReaps ==
    last.op = "scan_existing" =>
        /\ \A p \in Trackable(last.pre) :
              \E i \in 1..Len(entries) :
                  /\ entries[i].path = p
                  /\ entries[i].atime = last.pre.dds[p].mtime
                  /\ \A j \in 1..Len(entries) : entries[j].path = p => j = i
        /\ {entries[i].path : i \in 1..Len(entries)}
              = Trackable(last.pre)
                   \cup {last.pre.entries[i].path : i \in 1..Len(last.pre.entries)}
        /\ \A p \in Untrackable(last.pre) : ~dds_files[p].exists
        /\ last.num = Cardinality(Trackable(last.pre))
        /\ current_size = last.pre.current_size
                             + SumLen(last.pre.dds, Trackable(last.pre))

\* no cache operation in flight, and no patch has been started
Quiescent ==
    /\ threads.on
    /\ threads.lpc \in {"idle", "done"}
    /\ threads.spc \in {"idle", "done"}
    /\ threads.ipc \in {"idle", "done"}
    /\ threads.ppc = "idle"

\* C20: in every quiescent state reached by an interleaving of store, load
\* and invalidate threads, a .ddm exists at a path iff the .dds with the same
\* base name exists.
QuiescentPairs ==
    Quiescent => \A p \in Paths : ddm_files[p].exists <=> dds_files[p].exists

\* ------------------------------------------------------------------------
\* Specification: one tile cached at several zoom levels, loads at any of
\* them.  last.arg: the attributes the load set on the caller's tile;
\* last.pre: the files as the load found them; last.num: the zoom asked for
\* ------------------------------------------------------------------------

HintMaxClock == 5

HintRow == 21728

HnStore(z, dds_bytes) ==
    LET tile == Tile(HintRow, z, cfg_format)
        r    == store(W, Cfg, now, tile.id, z, dds_bytes, tile, FALSE, <<>>,
                      "none")
    IN  /\ now < HintMaxClock
        /\ SetW(r.w)
        /\ now' = now + 1
        /\ last' = LastN("store", PathOf(tile, z), r.ret, <<>>, NotStored, 0, z)
        /\ UNCHANGED <<threads, budget, enabled, compression, cfg_format,
                       cfg_compressor, bundle, stored>>

HnLoad(z) ==
    LET tile == Tile(HintRow, z, cfg_format)
        r    == load(W, Cfg, now, tile.id, z, tile)
    IN  /\ now < HintMaxClock
        /\ SetW(r.w)
        /\ now' = now + 1
        /\ last' = LastN("load", PathOf(tile, z), r.hit, r.data,
                         [dds |-> dds_files, ddm |-> ddm_files], r.attrs, z)
        /\ UNCHANGED <<threads, budget, enabled, compression, cfg_format,
                       cfg_compressor, bundle, stored>>

HnInvalidate(z) ==
    LET r == invalidate(W, Cfg, TileId(HintRow), z)
    IN  /\ now < HintMaxClock
        /\ SetW(r.w)
        /\ now' = now + 1
        /\ last' = LastN("invalidate", PathOf(Tile(HintRow, z, cfg_format), z),
                         r.ret, <<>>, NotStored, 0, z)
        /\ UNCHANGED <<threads, budget, enabled, compression, cfg_format,
                       cfg_compressor, bundle, stored>>

HintNext ==
    \/ \E z \in Zooms : \E dds_bytes \in FullPayloads[z]["BC1"] :
          HnStore(z, dds_bytes)
    \/ \E z \in Zooms : HnLoad(z)
    \/ \E z \in Zooms : HnInvalidate(z)

SpecHint == CacheInit /\ [][HintNext]_vars

HintPath(z) == _paths_for(HintRow, 34432, "BI", 12, z)

\* the load found nothing at the zoom asked for and a whole pair at zoom z
MissBeside(z) ==
    /\ last.op = "load"
    /\ z \in Zooms
    /\ ~last.pre.dds[last.path].exists
    /\ ~last.pre.ddm[last.path].exists
    /\ last.pre.dds[HintPath(z)].exists
    /\ last.pre.ddm[HintPath(z)].exists
    /\ last.pre.ddm[HintPath(z)].json_ok
    /\ last.pre.ddm[HintPath(z)].meta.max_zl = z

PairKept(z) ==
    /\ dds_files[HintPath(z)] = last.pre.dds[HintPath(z)]
    /\ ddm_files[HintPath(z)] = last.pre.ddm[HintPath(z)]

\* C23: when no entry exists at the requested zoom Z and a valid entry of
\* the tile exists at Z - 1, load returns None, sets the tile's upgrade hint
\* to that entry's path and metadata (max_zl = Z - 1), and leaves the Z - 1
\* pair on disk.
UpgradeHintOnMiss ==
    MissBeside(last.num - 1)
        => /\ ~last.ok
           /\ last.arg.upgrade_available
                 = Hint(HintPath(last.num - 1),
                        last.pre.ddm[HintPath(last.num - 1)].meta)
           /\ last.arg.upgrade_available.meta.max_zl = last.num - 1
           /\ PairKept(last.num - 1)

UpgradeHintWitness ==
    /\ MissBeside(last.num - 1)
    /\ last.num = 17
    /\ last.arg.upgrade_available.some
    /\ dds_files[HintPath(16)].exists

\* C24: when no entry exists at the requested zoom Z and a valid entry of
\* the tile exists at Z + 1, load returns None, sets the tile's downgrade
\* hint to that entry's path and metadata (max_zl = Z + 1), and leaves the
\* Z + 1 pair on disk.
DowngradeHintOnMiss ==
    MissBeside(last.num + 1)
        => /\ ~last.ok
           /\ last.arg.downgrade_available
                 = Hint(HintPath(last.num + 1),
                        last.pre.ddm[HintPath(last.num + 1)].meta)
           /\ PairKept(last.num + 1)

\* C25: after invalidate(id, Z) has returned, the pair's files are gone (so a
\* load misses), whether or not the entry was tracked in the LRU, and
\* invalidate returned True iff it removed an entry.
InvalidateRemoves ==
    last.op = "invalidate"
        => /\ ~dds_files[last.path].exists
           /\ ~ddm_files[last.path].exists
           /\ ~load(W, Cfg, now, TileId(last.path[1]), last.path[5],
                    Tile(last.path[1], last.path[5], cfg_format)).hit

\* ------------------------------------------------------------------------
\* Specification: DiskBudgetManager.__init__, the split of the total budget
\*   budget = [on, built, total_budget_mb, the three percentages as passed,
\*   dds_budget, bundle_budget, jpeg_budget in bytes]
\* ------------------------------------------------------------------------

MB == 1024 * 1024

SplitTotalsMb == {0, 1, 3, 1000, 2047}

SplitDdsPcts == {-1, 0, 9, 10, 11, 40, 59, 60, 61, 100}

SplitBundlePcts == {0, 29, 30, 31, 55, 80, 81}

SplitJpegPcts == {0, 1, 5, 20, 21}

\* int(a * b / c) for a, b >= 0 and 0 < c <= 160: the quotient, when it is
\* not whole, lies at least 1/160 from the next integer, so the float
\* division truncates to the exact floor; written without the product a * b
MulDivInt(a, b, c) == (a \div c) * b + ((a % c) * b) \div c

\* faulty variant: the percentages are taken as parts of 100
TotalPctHundred(dds_budget_pct, bundle_budget_pct, jpeg_budget_pct) == 100

TotalPct(dds_budget_pct, bundle_budget_pct, jpeg_budget_pct) ==
    dds_budget_pct + bundle_budget_pct + jpeg_budget_pct

Budgets(total_budget_mb, dds_budget_pct, bundle_budget_pct, jpeg_budget_pct) ==
    LET total_budget == total_budget_mb * 1024 * 1024
        dds_pct    == Max(10, Min(60, dds_budget_pct))
        bundle_pct == Max(30, Min(80, bundle_budget_pct))
        jpeg_pct   == Max(1, Min(20, jpeg_budget_pct))
        total_pct  == TotalPct(dds_pct, bundle_pct, jpeg_pct)
    IN  [total_budget |-> total_budget,
         dds_budget |-> MulDivInt(total_budget, dds_pct, total_pct),
         bundle_budget |-> MulDivInt(total_budget, bundle_pct, total_pct),
         jpeg_budget |-> MulDivInt(total_budget, jpeg_pct, total_pct)]

SplitInit ==
    /\ dds_files = [p \in Paths |-> NoFile]
    /\ ddm_files = [p \in Paths |-> NoDdm]
    /\ entries = <<>>
    /\ current_size = 0
    /\ jpeg_cleanups = {}
    /\ enabled = TRUE
    /\ compression = "none"
    /\ cfg_format = "BC1"
    /\ cfg_compressor = "ISPC"
    /\ bundle = [r \in Rows |-> 0]
    /\ now = 1
    /\ stored = [p \in Paths |-> NotStored]
    /\ last = Last("init", <<>>, FALSE, <<>>, NotStored)
    /\ threads = NoThreads
    /\ \E t \in SplitTotalsMb, d \in SplitDdsPcts, b \in SplitBundlePcts,
          j \in SplitJpegPcts :
          budget = [on |-> FALSE, built |-> FALSE, total_budget_mb |-> t,
                    dds_budget_pct |-> d, bundle_budget_pct |-> b,
                    jpeg_budget_pct |-> j, total_budget |-> 0,
                    dds_budget |-> 0, bundle_budget |-> 0, jpeg_budget |-> 0]

SplitConstruct ==
    LET r == Budgets(budget.total_budget_mb, budget.dds_budget_pct,
                     budget.bundle_budget_pct, budget.jpeg_budget_pct)
    IN  /\ ~budget.built
        /\ budget' = [budget EXCEPT !.built = TRUE,
                                    !.total_budget = r.total_budget,
                                    !.dds_budget = r.dds_budget,
                                    !.bundle_budget = r.bundle_budget,
                                    !.jpeg_budget = r.jpeg_budget]
        /\ UNCHANGED <<cacheVars, threads>>

SplitNext == SplitConstruct

SpecSplit == SplitInit /\ [][SplitNext]_vars

\* x brought into lo..hi
Clamped(x, lo, hi) == IF x < lo THEN lo ELSE IF x > hi THEN hi ELSE x

\* x bytes is, within 1 MB, the share pct / sum of t megabytes
IsShare(x, t, pct, sum) ==
    /\ x \div MB <= (t * pct) \div sum
    /\ (x \div MB) + 1 >= (t * pct) \div sum

\* C26: the three budgets are the total's shares by the percentages clamped
\* to dds 10..60, bundle 30..80, jpeg 1..20 over the sum of the clamped
\* values; their sum is at most the total budget and less than 1 MB below it;
\* for 1000 MB and (40, 55, 5) they are 400, 550 and 50 MB within 1 MB.
BudgetSplit ==
    ("built" \in DOMAIN budget /\ budget.built) =>
        LET d   == Clamped(budget.dds_budget_pct, 10, 60)
            b   == Clamped(budget.bundle_budget_pct, 30, 80)
            j   == Clamped(budget.jpeg_budget_pct, 1, 20)
            t   == budget.total_budget_mb
            sum == budget.dds_budget + budget.bundle_budget + budget.jpeg_budget
        IN  /\ budget.total_budget = t * MB
            /\ IsShare(budget.dds_budget, t, d, d + b + j)
            /\ IsShare(budget.bundle_budget, t, b, d + b + j)
            /\ IsShare(budget.jpeg_budget, t, j, d + b + j)
            /\ sum <= budget.total_budget
            /\ budget.total_budget - sum < MB
            /\ (t = 1000 /\ budget.dds_budget_pct = 40
                  /\ budget.bundle_budget_pct = 55 /\ budget.jpeg_budget_pct = 5)
                  => /\ budget.dds_budget > 399 * MB /\ budget.dds_budget < 401 * MB
                     /\ budget.bundle_budget > 549 * MB
                     /\ budget.bundle_budget < 551 * MB
                     /\ budget.jpeg_budget > 49 * MB /\ budget.jpeg_budget < 51 * MB

\* percentages out of range on every side, on a budget that does not divide
BudgetSplitWitness ==
    /\ "built" \in DOMAIN budget
    /\ budget.built
    /\ budget.total_budget_mb = 2047
    /\ budget.dds_budget_pct = 100
    /\ budget.bundle_budget_pct = 0
    /\ budget.jpeg_budget_pct = 21
    /\ budget.dds_budget + budget.bundle_budget + budget.jpeg_budget
          < budget.total_budget

\* self._max_size = max_size_mb * 1024 * 1024, scaled to the tiles' sizes:
\* room for one 184-byte tile and part of a second
MaxSize == 256

\* C27: after any sequence of store calls on a cache of maximum size S, once
\* all background work has finished (store starts none that touches the LRU),
\* the tracked disk usage is at most 1.1 x S.
UsageWithinMaxSize ==
    last.op = "store" => 10 * current_size <= 11 * MaxSize

\* ------------------------------------------------------------------------
\* Specification: several threads in account_dds, and the eviction threads
\* that _schedule_eviction starts
\*   threads.callers[c]: "idle", "check" (past the locked update), "locked"
\*   (in _schedule_eviction, about to take the lock), "start" (flag set, thread
\*   not started yet); threads.workers[i]: "none", "run" (in check_and_evict),
\*   "finally", "ended"; threads.raised[i]: check_and_evict raised
\* ------------------------------------------------------------------------

Accountants == {1, 2}

MaxSchedCalls == 4

\* a call starts at most one thread
WorkerIds == 1..MaxSchedCalls

AccountSizes == {300, 500}

SchedInit ==
    /\ dds_files = [p \in Paths |-> NoFile]
    /\ ddm_files = [p \in Paths |-> NoDdm]
    /\ entries = <<>>
    /\ current_size = 0
    /\ jpeg_cleanups = {}
    /\ enabled = TRUE
    /\ compression = "none"
    /\ cfg_format = "BC1"
    /\ cfg_compressor = "ISPC"
    /\ bundle = [r \in Rows |-> 0]
    /\ now = 1
    /\ stored = [p \in Paths |-> NotStored]
    /\ last = Last("init", <<>>, FALSE, <<>>, NotStored)
    /\ threads = [on |-> TRUE,
                  callers |-> [c \in Accountants |-> "idle"],
                  workers |-> [i \in WorkerIds |-> "none"],
                  raised |-> [i \in WorkerIds |-> FALSE]]
    /\ budget = [BudgetInit EXCEPT !.on = FALSE]

\* faulty variant: the flag is not consulted
MayScheduleAlways(eviction_in_progress) == TRUE

\* _schedule_eviction's test under the lock
MaySchedule(eviction_in_progress) == ~eviction_in_progress

\* account_dds, the locked update
AcAdd(c, size_bytes) ==
    /\ threads.callers[c] = "idle"
    /\ budget.calls < MaxSchedCalls
    /\ budget' = [budget EXCEPT !.dds_usage = Max(0, @ + size_bytes),
                                !.calls = @ + 1]
    /\ threads' = [threads EXCEPT !.callers[c] = "check"]
    /\ UNCHANGED cacheVars

\* account_dds, the test outside the lock
AcCheck(c) ==
    /\ threads.callers[c] = "check"
    /\ threads' = [threads EXCEPT !.callers[c] =
                      IF budget.dds_usage > budget.dds_budget
                      THEN "locked" ELSE "idle"]
    /\ UNCHANGED <<cacheVars, budget>>

\* _schedule_eviction, the locked test and set
AcTestAndSet(c) ==
    /\ threads.callers[c] = "locked"
    /\ IF MaySchedule(budget.eviction_in_progress)
       THEN /\ budget' = [budget EXCEPT !.eviction_in_progress = TRUE]
            /\ threads' = [threads EXCEPT !.callers[c] = "start"]
       ELSE /\ threads' = [threads EXCEPT !.callers[c] = "idle"]
            /\ UNCHANGED budget
    /\ UNCHANGED cacheVars

\* threading.Thread(target=_run).start()
AcStart(c) ==
    /\ threads.callers[c] = "start"
    /\ \E i \in WorkerIds :
          /\ threads.workers[i] = "none"
          /\ \A j \in WorkerIds : j < i => threads.workers[j] # "none"
          /\ threads' = [threads EXCEPT !.callers[c] = "idle",
                                        !.workers[i] = "run"]
    /\ UNCHANGED <<cacheVars, budget>>

\* _run: check_and_evict returns (the usage brought down by what evict_lru
\* freed) or raises
WkCheckAndEvict(i, raises) ==
    /\ threads.workers[i] = "run"
    /\ LET excess == budget.dds_usage - (budget.dds_budget * 9) \div 10
       IN  budget' = IF ~raises /\ budget.dds_usage > budget.dds_budget
                     THEN [budget EXCEPT !.dds_usage = @ - excess]
                     ELSE budget
    /\ threads' = [threads EXCEPT !.workers[i] = "finally",
                                  !.raised[i] = raises]
    /\ UNCHANGED cacheVars

\* _run: finally, with the lock: the flag is cleared and the thread ends
WkFinally(i) ==
    /\ threads.workers[i] = "finally"
    /\ budget' = [budget EXCEPT !.eviction_in_progress = FALSE]
    /\ threads' = [threads EXCEPT !.workers[i] = "ended"]
    /\ UNCHANGED cacheVars

SchedNext ==
    \/ \E c \in Accountants, size_bytes \in AccountSizes : AcAdd(c, size_bytes)
    \/ \E c \in Accountants : AcCheck(c)
    \/ \E c \in Accountants : AcTestAndSet(c)
    \/ \E c \in Accountants : AcStart(c)
    \/ \E i \in WorkerIds, raises \in BOOLEAN : WkCheckAndEvict(i, raises)
    \/ \E i \in WorkerIds : WkFinally(i)

SpecSched == SchedInit /\ [][SchedNext]_vars

RunningWorkers ==
    {i \in WorkerIds : threads.workers[i] \in {"run", "finally"}}

\* C28: for any interleaving of account_dds calls at most one eviction thread
\* started by _schedule_eviction is running at any time, and the in-progress
\* flag is cleared when that worker ends, also when check_and_evict raised:
\* the flag is set only while a worker runs or is about to be started.
OneEvictionWorker ==
    ("callers" \in DOMAIN threads) =>
        /\ Cardinality(RunningWorkers)
              + Cardinality({c \in Accountants : threads.callers[c] = "start"}) <= 1
        /\ budget.eviction_in_progress
              <=> (RunningWorkers # {}
                     \/ \E c \in Accountants : threads.callers[c] = "start")

\* a worker whose check_and_evict raised has ended, the flag is clear, and a
\* second worker has been started since
OneEvictionWorkerWitness ==
    /\ "callers" \in DOMAIN threads
    /\ threads.workers[1] = "ended"
    /\ threads.raised[1]
    /\ threads.workers[2] = "ended"
    /\ ~budget.eviction_in_progress
    /\ \E c \in Accountants : threads.callers[c] = "locked"

\* ------------------------------------------------------------------------
\* What a patch_missing_chunks call leaves listed as missing
\* ------------------------------------------------------------------------

\* the chunk indices this call has patched: the keys of the map whose JPEG
\* decoded (patched += 1 after the seek-writes of one chunk)
PatchedIdx(chunk_jpegs) ==
    {chunk_jpegs[j].idx : j \in {i \in 1..Len(chunk_jpegs) : chunk_jpegs[i].ok}}

StillMissing(missing, chunk_jpegs) ==
    SelectSeq(missing, LAMBDA i : i \notin PatchedIdx(chunk_jpegs))

\* C29: after patch_missing_chunks returns, the DDM's missing_indices is
\* exactly the previously missing chunks that this call did not patch (chunks
\* absent from the supplied map and chunks whose JPEG failed to decode stay
\* listed), and needs_healing is true exactly while any remain.
PatchKeepsUnpatched ==
    (/\ last.op = "patch_missing_chunks"
     /\ last.pre.some
     /\ ddm_files[HealPath].exists)
        => /\ ddm_files[HealPath].meta.missing_indices
                 = StillMissing(last.pre.missing, last.arg)
           /\ ddm_files[HealPath].meta.needs_healing
                 = (StillMissing(last.pre.missing, last.arg) # <<>>)

\* ------------------------------------------------------------------------
\* store_incremental under zstd disk compression
\* ------------------------------------------------------------------------

\* C30: when zstd disk compression is enabled, an artifact written by
\* store_incremental is stored compressed: its DDM records disk_compression =
\* "zstd", the file on disk is smaller than total_size, and it is a zstd frame
\* that decompresses to the total_size image (a later call has decompressed,
\* patched and recompressed it, never seek-written raw bytes into it).
IncrementalCompressed ==
    (/\ compression = "zstd"
     /\ last.op = "store_incremental"
     /\ last.ok
     /\ dds_files[IncrPath].exists
     /\ ddm_files[IncrPath].exists)
        => /\ ddm_files[IncrPath].meta.disk_compression = "zstd"
           /\ Len(dds_files[IncrPath].data) < IncrTile.dds.total_size
           /\ ZstdDecompress(dds_files[IncrPath].data).ok
           /\ Len(ZstdDecompress(dds_files[IncrPath].data).data)
                 = IncrTile.dds.total_size

\* ------------------------------------------------------------------------
\* The public methods under a failing file-system or path-resolution call,
\* and on a disabled cache.
\*   fault: the call that fails during the method ("none": nothing fails):
\*     "paths_for"  get_dds_cache_path raises inside _paths_for
\*     "makedirs"   os.makedirs raises OSError
\*     "write_dds"  opening or writing the .dds raises OSError
\*     "write_ddm"  _write_ddm re-raises what open / os.replace raised
\*   os.remove failures are swallowed where they happen (_delete_pair).
\* In this specification `threads` carries dirs, the tile directories that
\* exist under the cache root.
\* ------------------------------------------------------------------------

ApiMaxClock == 3

FaultPoints == {"none", "paths_for", "makedirs", "write_dds", "write_ddm"}

\* the calls a method makes outside every try block of its own
OutsideTry(method) ==
    CASE method = "get_staging_path"     -> {"paths_for", "makedirs"}
      [] method = "patch_missing_chunks" -> {"paths_for", "write_ddm"}
      [] OTHER                           -> {}

\* the local names the method's except handler reads
HandlerReads(method) ==
    IF method \in {"store", "store_from_file"} THEN {"dds_path"} ELSE {}

\* the local names assigned by the time the call at `fault` fails
BoundAt(fault) ==
    IF fault = "paths_for" THEN {} ELSE {"dds_path", "ddm_path"}

\* the failure at `fault` leaves the method as an exception: nothing catches
\* it, or the handler that caught it reads a name that was never assigned
Raises(method, fault) ==
    /\ fault # "none"
    /\ \/ fault \in OutsideTry(method)
       \/ ~(HandlerReads(method) \subseteq BoundAt(fault))

\* os.path.dirname(dds_path), named by the base name it is the parent of
DirOf(dds_path) == <<"dirname", dds_path>>

load_metadata(w, c, tile, max_zoom) ==
    IF ~c.enabled THEN [some |-> FALSE, meta |-> EmptyMeta]
    ELSE _read_ddm(w, PathOf(tile, max_zoom))

contains(w, c, tile, max_zoom) ==
    c.enabled /\ w.dds[PathOf(tile, max_zoom)].exists

\* [dirs, some, raised]: some = a path was returned
get_staging_path(dirs, tile, max_zoom, fault) ==
    IF fault \in {"paths_for", "makedirs"}
    THEN [dirs |-> dirs, some |-> FALSE, raised |-> TRUE]
    ELSE [dirs |-> dirs \cup {DirOf(PathOf(tile, max_zoom))}, some |-> TRUE,
          raised |-> FALSE]

ApiTile(z) == Tile(21728, z, "BC1")

ApiPath(z) == PathOf(ApiTile(z), z)

ApiInit ==
    /\ dds_files = [p \in Paths |-> NoFile]
    /\ ddm_files = [p \in Paths |-> NoDdm]
    /\ entries = <<>>
    /\ current_size = 0
    /\ jpeg_cleanups = {}
    /\ enabled \in BOOLEAN
    /\ compression \in CompressionModes
    /\ cfg_format = "BC1"
    /\ cfg_compressor = "ISPC"
    /\ bundle = [r \in Rows |-> 0]
    /\ now = 1
    /\ stored = [p \in Paths |-> NotStored]
    /\ last = Last("init", <<>>, FALSE, <<>>, NotStored)
    /\ threads = [on |-> FALSE, dirs |-> {}]
    /\ budget = NoBudget

\* what a call found: the files, the LRU and the directories
ApiPre ==
    [dds |-> dds_files, ddm |-> ddm_files, entries |-> entries,
     current_size |-> current_size, dirs |-> threads.dirs,
     jpeg_cleanups |-> jpeg_cleanups]

\* last.ok: the value returned is truthy; last.data: mm0_missing_indices of a
\* store; last.arg: the failing call, whether the method raised, whether it
\* returned None; last.num: a count returned
ApiStepM(op, path, w, dirs, ok, none, num, fault, raised, missing) ==
    /\ SetW(w)
    /\ threads' = [threads EXCEPT !.dirs = dirs]
    /\ now' = now + 1
    /\ last' = LastN(op, path, ok, missing, ApiPre,
                     [fault |-> fault, raised |-> raised, none |-> none], num)
    /\ UNCHANGED <<budget, enabled, compression, cfg_format, cfg_compressor,
                   bundle, stored>>

ApiStep(op, path, w, dirs, ok, none, num, fault, raised) ==
    ApiStepM(op, path, w, dirs, ok, none, num, fault, raised, <<>>)

\* the method got as far as _paths_for / os.makedirs and that call failed
Early(fault) == fault \in {"paths_for", "makedirs"}

WithDir(z) == threads.dirs \cup {DirOf(ApiPath(z))}

ApLoad(fault) ==
    LET r    == load(W, Cfg, now, ApiTile(16).id, 16, ApiTile(16))
        fail == enabled /\ fault = "paths_for"
    IN  /\ now < ApiMaxClock
        /\ fault \in {"none", "paths_for"}
        /\ ApiStep("load", ApiPath(16), IF fail THEN W ELSE r.w, threads.dirs,
                   ~fail /\ r.hit, fail \/ ~r.hit, 0, fault,
                   fail /\ Raises("load", fault))

ApLoadMetadata(fault) ==
    LET r    == load_metadata(W, Cfg, ApiTile(16), 16)
        fail == enabled /\ fault = "paths_for"
    IN  /\ now < ApiMaxClock
        /\ fault \in {"none", "paths_for"}
        /\ ApiStep("load_metadata", ApiPath(16), W, threads.dirs,
                   ~fail /\ r.some, fail \/ ~r.some, 0, fault,
                   fail /\ Raises("load_metadata", fault))

ApContains(fault) ==
    LET fail == enabled /\ fault = "paths_for"
    IN  /\ now < ApiMaxClock
        /\ fault \in {"none", "paths_for"}
        /\ ApiStep("contains", ApiPath(16), W, threads.dirs,
                   ~fail /\ contains(W, Cfg, ApiTile(16), 16), FALSE, 0, fault,
                   fail /\ Raises("contains", fault))

ApGetStagingPath(fault) ==
    LET r == get_staging_path(threads.dirs, ApiTile(16), 16, fault)
    IN  /\ now < ApiMaxClock
        /\ fault \in {"none", "paths_for", "makedirs"}
        /\ ApiStep("get_staging_path", ApiPath(16), W, r.dirs, r.some,
                   ~r.some, 0, fault, r.raised)

ApStore(dds_bytes, missing, fault) ==
    LET reached == enabled /\ Len(dds_bytes) >= HeaderLen
        fail    == reached /\ Early(fault)
        r       == store(W, Cfg, now, ApiTile(16).id, 16, dds_bytes,
                         ApiTile(16), FALSE, missing, fault)
    IN  /\ now < ApiMaxClock
        /\ ApiStepM("store", ApiPath(16), IF fail THEN W ELSE r.w,
                    IF reached /\ fault # "paths_for" /\ fault # "makedirs"
                    THEN WithDir(16) ELSE threads.dirs,
                    ~fail /\ r.ret, FALSE, 0, fault,
                    reached /\ Raises("store", fault), missing)

ApStoreFromFile(dds_bytes, missing, fault) ==
    LET reached == enabled /\ Len(dds_bytes) >= HeaderLen
        fail    == reached /\ Early(fault)
        r       == store_from_file(W, Cfg, now, ApiTile(16).id, 16,
                                   File(dds_bytes, now), FALSE, ApiTile(16),
                                   missing, fault)
    IN  /\ now < ApiMaxClock
        /\ ApiStepM("store_from_file", ApiPath(16), IF fail THEN W ELSE r.w,
                    IF reached /\ fault # "paths_for" /\ fault # "makedirs"
                    THEN WithDir(16) ELSE threads.dirs,
                    ~fail /\ r.ret, FALSE, 0, fault,
                    reached /\ Raises("store_from_file", fault), missing)

ApStoreIncremental(mipmap_data, fault) ==
    LET reached == enabled /\ mipmap_data # <<>>
        fail    == reached /\ Early(fault)
        r       == store_incremental(W, Cfg, now, IncrTile.id, 15, IncrTile,
                                     IncrTile.dds.header,
                                     IncrTile.dds.total_size, mipmap_data,
                                     IncrOffsets)
    IN  /\ now < ApiMaxClock
        /\ fault \in {"none", "paths_for", "makedirs"}
        /\ ApiStep("store_incremental", IncrPath, IF fail THEN W ELSE r.w,
                   IF reached /\ ~fail THEN WithDir(15) ELSE threads.dirs,
                   ~fail /\ r.ret, FALSE, 0, fault,
                   reached /\ Raises("store_incremental", fault))

ApUpgrade(fault) ==
    LET fail == enabled /\ fault = "paths_for"
        r    == upgrade_zl(W, Cfg, now, ApiTile(17).id, 16, 17,
                           NewMm0(ApiTile(17)), ApiTile(17),
                           IF fault = "paths_for" THEN "none" ELSE fault)
    IN  /\ now < ApiMaxClock
        /\ fault # "makedirs"
        /\ ApiStep("upgrade_zl", ApiPath(17), IF fail THEN W ELSE r.w,
                   threads.dirs, ~fail /\ r.ok, fail \/ ~r.ok, 0, fault,
                   fail /\ Raises("upgrade_zl", fault))

ApDowngrade(fault) ==
    LET fail == enabled /\ fault = "paths_for"
        r    == downgrade_zl(W, Cfg, now, ApiTile(15).id, 16, 15, ApiTile(15),
                             IF fault = "paths_for" THEN "none" ELSE fault)
    IN  /\ now < ApiMaxClock
        /\ fault # "makedirs"
        /\ ApiStep("downgrade_zl", ApiPath(15), IF fail THEN W ELSE r.w,
                   threads.dirs, ~fail /\ r.ok, fail \/ ~r.ok, 0, fault,
                   fail /\ Raises("downgrade_zl", fault))

ApInvalidate ==
    LET r == invalidate(W, Cfg, ApiTile(16).id, 16)
    IN  /\ now < ApiMaxClock
        /\ ApiStep("invalidate", ApiPath(16), r.w, threads.dirs, r.ret, FALSE, 0,
                   "none", FALSE)

ApEvictLru(bytes_to_free) ==
    LET r == evict_lru(W, bytes_to_free)
    IN  /\ now < ApiMaxClock
        /\ ApiStep("evict_lru", <<>>, r.w, threads.dirs, r.ret > 0, FALSE, r.ret,
                   "none", FALSE)

ApScanExisting ==
    LET r == scan_existing(W, Cfg)
    IN  /\ now < ApiMaxClock
        /\ ApiStep("scan_existing", <<>>, r.w, threads.dirs, r.ret > 0, FALSE,
                   r.ret, "none", FALSE)

\* the caller heals what the DDM lists.  A failing open leaves the files as
\* they were; a failing _write_ddm comes after the DDS has been patched
ApPatch(chunk_jpegs, fault) ==
    LET m       == _read_ddm(W, ApiPath(16))
        missing == IF m.some THEN m.meta.missing_indices ELSE <<>>
        r       == patch_missing_chunks(W, Cfg, now, {}, ApiTile(16).id, 16,
                                        ApiTile(16), chunk_jpegs, missing)
        f       == dds_files[ApiPath(16)]
        patched == /\ f.exists
                   /\ m.some
                   /\ _decompress_dds(f.data, m.meta).ok
        reached == CASE fault = "paths_for" -> TRUE
                     [] fault = "write_dds" -> TRUE
                     [] fault = "write_ddm" -> patched
                     [] OTHER               -> FALSE
        w1      == CASE reached /\ fault = "write_ddm" ->
                            [r.w EXCEPT !.ddm = ddm_files]
                     [] reached -> W
                     [] OTHER   -> r.w
    IN  /\ now < ApiMaxClock
        /\ fault # "makedirs"
        /\ ApiStep("patch_missing_chunks", ApiPath(16), w1, threads.dirs,
                   ~reached /\ r.ret, FALSE, 0, fault,
                   reached /\ Raises("patch_missing_chunks", fault))

ApiNext ==
    \/ \E fault \in FaultPoints : ApLoad(fault)
    \/ \E fault \in FaultPoints : ApLoadMetadata(fault)
    \/ \E fault \in FaultPoints : ApContains(fault)
    \/ \E fault \in FaultPoints : ApGetStagingPath(fault)
    \/ \E dds_bytes \in TilePayloads[16]["BC1"], missing \in MissingLists,
          fault \in FaultPoints : ApStore(dds_bytes, missing, fault)
    \/ \E dds_bytes \in TilePayloads[16]["BC1"], missing \in MissingLists,
          fault \in FaultPoints : ApStoreFromFile(dds_bytes, missing, fault)
    \/ \E mipmap_data \in WriterDicts \cup {<<>>}, fault \in FaultPoints :
          ApStoreIncremental(mipmap_data, fault)
    \/ \E fault \in FaultPoints : ApUpgrade(fault)
    \/ \E fault \in FaultPoints : ApDowngrade(fault)
    \/ ApInvalidate
    \/ \E bytes_to_free \in {1, 400} : ApEvictLru(bytes_to_free)
    \/ ApScanExisting
    \/ \E chunk_jpegs \in HealJpegs, fault \in FaultPoints :
          ApPatch(chunk_jpegs, fault)

SpecApi == ApiInit /\ [][ApiNext]_vars

StoreMethods == {"store", "store_from_file", "store_incremental"}

LoadMethods == {"load", "load_metadata"}

\* C21: no public method of the cache raises to its caller under a
\* file-system or path-resolution failure at any step: store* returns False
\* and load* returns None.
NeverRaises ==
    (last.op # "init" /\ last.arg.fault # "none")
        => /\ ~last.arg.raised
           /\ last.op \in StoreMethods => ~last.ok
           /\ last.op \in LoadMethods => last.arg.none

NullMethods == {"load", "load_metadata", "upgrade_zl", "downgrade_zl", "get_staging_path"}

FalseMethods == StoreMethods \cup {"contains", "invalidate"}

\* C22: on a disabled cache store, store_from_file and store_incremental
\* return False, load, load_metadata, upgrade_zl, downgrade_zl and
\* get_staging_path return None, contains and invalidate return False,
\* scan_existing returns 0, and none of them creates a file or a directory
\* or changes the LRU.
DisabledIsNoOp ==
    (/\ ~enabled
     /\ last.op \in NullMethods \cup FalseMethods \cup {"scan_existing"}
     /\ last.arg.fault = "none")
        => /\ last.op \in NullMethods => last.arg.none
           /\ last.op \in FalseMethods => ~last.ok
           /\ last.num = 0
           /\ ApiPre = last.pre

\* ------------------------------------------------------------------------
\* Cross-session healing: load serves an incomplete tile and
\* _try_heal_from_disk_cache looks for the JPEG of every missing chunk; when
\* all exist a thread (_heal_from_disk) reads them one by one and calls
\* patch_missing_chunks.  Other code creates, deletes and rewrites the JPEG
\* files meanwhile.
\*   threads.jpegs[idx]: the chunk's JPEG file: "absent", "good" (decodes),
\*     "corrupt" (readable, does not decode), "locked" (open raises OSError)
\*   threads.pc: "idle", "reading" (the thread runs), "aborted" (it returned
\*     without patching), "patched"
\*   threads.missing: the list handed to the thread; todo: what it has still
\*     to read; chunk_jpegs: what it has read; tile_missing:
\*     tile._dds_missing_indices; pre: the DDS and DDM when the thread started
\* ------------------------------------------------------------------------

DispatchMaxClock == 5

JpegKinds == {"absent", "good", "corrupt", "locked"}

ChunkIdx == {0, 3}

DispatchInit ==
    /\ compression \in CompressionModes
    /\ enabled = TRUE
    /\ cfg_format = "BC1"
    /\ cfg_compressor = "ISPC"
    /\ bundle = [r \in Rows |-> 0]
    /\ now = 2
    /\ stored = [p \in Paths |-> NotStored]
    /\ last = Last("init", <<>>, FALSE, <<>>, NotStored)
    /\ budget = NoBudget
    /\ \E jpegs \in [ChunkIdx -> JpegKinds] :
          threads = [on |-> TRUE, jpegs |-> jpegs, pc |-> "idle",
                     missing |-> <<>>, todo |-> <<>>, chunk_jpegs |-> <<>>,
                     tile_missing |-> <<>>,
                     pre |-> [dds |-> NoFile, ddm |-> NoDdm]]
    /\ \E b0 \in FullPayloads[16]["BC1"], missing \in MissingLists :
          LET c0 == [enabled |-> TRUE, compression |-> compression,
                     format |-> "BC1", compressor |-> "ISPC",
                     bundle |-> [r \in Rows |-> 0]]
              w0 == store(EmptyW, c0, 1, HealTile.id, 16, b0, HealTile, FALSE,
                          missing, "none").w
          IN  /\ dds_files = w0.dds
              /\ ddm_files = w0.ddm
              /\ entries = w0.entries
              /\ current_size = w0.current_size
              /\ jpeg_cleanups = w0.jpeg_cleanups

DispatchFrame ==
    UNCHANGED <<budget, enabled, compression, cfg_format, cfg_compressor,
                bundle, stored>>

\* os.path.exists(jpeg_path) for every missing index
AllExist(jpegs, missing) ==
    \A i \in 1..Len(missing) : jpegs[missing[i]] # "absent"

\* _try_heal_from_disk_cache: the thread is started
Dispatches(jpegs, tile) ==
    /\ tile.missing # <<>>
    /\ tile.chunks_per_row # 0
    /\ AllExist(jpegs, tile.missing)

\* faulty variant: a chunk that cannot be read is skipped
AfterReadErrorSkip(h) == [h EXCEPT !.todo = Tail(h.todo)]

\* _heal_from_disk, except (FileNotFoundError, OSError): return
AfterReadError(h) == [h EXCEPT !.pc = "aborted", !.todo = <<>>]

\* one pass of the reading loop of _heal_from_disk
ReadChunk(h) ==
    LET idx  == Head(h.todo)
        kind == h.jpegs[idx]
    IN  IF kind \in {"absent", "locked"} THEN AfterReadError(h)
        ELSE [h EXCEPT !.todo = Tail(h.todo),
                       !.chunk_jpegs = Append(h.chunk_jpegs,
                                              [idx |-> idx, ok |-> kind = "good"])]

\* load, which ends in _try_heal_from_disk_cache when the DDM says the tile
\* needs healing
DpLoad ==
    LET r  == load(W, Cfg, now, HealTile.id, 16, HealTile)
        tm == IF r.hit /\ r.attrs.needs_healing THEN r.attrs.missing_indices
              ELSE threads.tile_missing
        go == /\ r.hit
              /\ r.attrs.needs_healing
              /\ Dispatches(threads.jpegs,
                            [missing |-> tm,
                             chunks_per_row |-> HealTile.chunks_per_row])
    IN  /\ now < DispatchMaxClock
        /\ threads.pc # "reading"
        /\ SetW(r.w)
        /\ now' = now + 1
        /\ threads' = IF go
                      THEN [threads EXCEPT !.pc = "reading", !.missing = tm,
                                           !.todo = tm, !.chunk_jpegs = <<>>,
                                           !.tile_missing = tm,
                                           !.pre = [dds |-> r.w.dds[HealPath],
                                                    ddm |-> r.w.ddm[HealPath]]]
                      ELSE [threads EXCEPT !.pc = "idle", !.tile_missing = tm]
        /\ last' = Last("load", HealPath, r.hit, r.data, NotStored)
        /\ DispatchFrame

DpRead ==
    /\ threads.pc = "reading"
    /\ threads.todo # <<>>
    /\ threads' = ReadChunk(threads)
    /\ last' = Last("read_jpeg", HealPath, threads'.pc = "reading", <<>>,
                    NotStored)
    /\ UNCHANGED <<dds_files, ddm_files, entries, current_size, jpeg_cleanups,
                   now>>
    /\ DispatchFrame

DpPatch ==
    LET r     == patch_missing_chunks(W, Cfg, now, {}, HealTile.id, 16,
                                      HealTile, threads.chunk_jpegs,
                                      threads.tile_missing)
        m     == _read_ddm(r.w, HealPath)
    IN  /\ threads.pc = "reading"
        /\ threads.todo = <<>>
        /\ SetW(r.w)
        /\ threads' = [threads EXCEPT
                          !.pc = "patched",
                          !.tile_missing = IF m.some
                                           THEN m.meta.missing_indices ELSE @]
        /\ last' = LastN("patch_missing_chunks", HealPath, r.ret, <<>>,
                         NotStored, threads.chunk_jpegs, 0)
        /\ UNCHANGED now
        /\ DispatchFrame

\* the JPEG cache changes under the healer: a download lands, a cleanup
\* deletes a chunk, a file is being written
DpJpeg(idx, kind) ==
    /\ now < DispatchMaxClock
    /\ threads.jpegs[idx] # kind
    /\ threads' = [threads EXCEPT !.jpegs[idx] = kind]
    /\ now' = now + 1
    /\ last' = Last("jpeg", HealPath, TRUE, <<>>, NotStored)
    /\ UNCHANGED <<dds_files, ddm_files, entries, current_size, jpeg_cleanups>>
    /\ DispatchFrame

DispatchNext ==
    \/ DpLoad
    \/ DpRead
    \/ DpPatch
    \/ \E idx \in ChunkIdx, kind \in JpegKinds : DpJpeg(idx, kind)

SpecDispatch == DispatchInit /\ [][DispatchNext]_vars

\* C31: the healing dispatcher calls patch_missing_chunks only when the JPEG
\* file of every missing index existed and was read; when a file is missing
\* or unreadable the attempt ends with the DDS, the DDM and the tile's
\* missing-index list as they were when it started.
HealAllOrNothing ==
    /\ threads.pc = "patched"
          => /\ {threads.chunk_jpegs[i].idx : i \in 1..Len(threads.chunk_jpegs)}
                   = SeqSet(threads.missing)
             /\ threads.missing # <<>>
    /\ threads.pc = "aborted"
          => /\ dds_files[HealPath] = threads.pre.dds
             /\ ddm_files[HealPath] = threads.pre.ddm
             /\ threads.tile_missing = threads.missing

\* the thread had read chunk 0 when chunk 3 turned out to be gone: it gave up
HealAllOrNothingWitness ==
    /\ threads.pc = "aborted"
    /\ Len(threads.chunk_jpegs) = 1
    /\ threads.missing = <<0, 3>>
    /\ threads.jpegs[3] \in {"absent", "locked"}
    /\ ddm_files[HealPath].meta.needs_healing

\* ------------------------------------------------------------------------
\* When the deletion of a tile's source JPEGs is scheduled
\* ------------------------------------------------------------------------

\* the calls that end in self.store(...) without a missing-chunk list
MigrationMethods == {"upgrade_zl", "downgrade_zl"}

\* C32: deletion of a tile's source JPEG chunks is scheduled only by a store
\* or store_from_file call (made by the caller, or made by upgrade_zl /
\* downgrade_zl without a missing-chunk list) that succeeded with an empty or
\* absent missing-chunk list; a store that records missing mm0 chunks, a
\* store that fails, and store_incremental never schedule it.
CleanupOnlyWhenComplete ==
    (last.op # "init" /\ jpeg_cleanups # last.pre.jpeg_cleanups)
        => /\ last.ok
           /\ \/ last.op \in {"store", "store_from_file"} /\ last.data = <<>>
              \/ last.op \in MigrationMethods

\* a complete store has just scheduled the deletion
CleanupOnlyWhenCompleteWitness ==
    /\ last.op = "store"
    /\ last.ok
    /\ last.data = <<>>
    /\ last.pre.jpeg_cleanups = {}
    /\ jpeg_cleanups = {ApiTile(16).id}

\* ------------------------------------------------------------------------
\* parallel_compress: the stripe tasks of one mipmap.
\* A task is [start, hh, dxt_offset]: stripe_start_row_px, stripe_height_px
\* and dxt_offset_bytes of the tuple handed to _compress_stripe_worker.
\* In this specification `threads` carries the call's arguments and the task
\* list it built.
\* ------------------------------------------------------------------------

\* if stripe_height_px < 4 or stripe_height_px % 4 != 0: stripe_height_px = 128
StripeHeightPx(stripe_height_px) ==
    IF stripe_height_px < 4 \/ stripe_height_px % 4 # 0 THEN 128
    ELSE stripe_height_px

\* faulty variant: the offset counts pixel rows, not block rows
DxtOffsetByPixelRow(start, blocks_per_row, blocksize) ==
    start * blocks_per_row * blocksize

\* dxt_offset = (start // 4) * blocks_per_row * blocksize
DxtOffset(start, blocks_per_row, blocksize) ==
    (start \div 4) * blocks_per_row * blocksize

\* the while loop that appends the tasks
RECURSIVE StripeLoop(_, _, _, _, _, _)
StripeLoop(tasks, start, height, stripe_height_px, blocks_per_row, blocksize) ==
    IF start < height
    THEN LET h0 == Min(stripe_height_px, height - start)
             hh == Max(4, ((h0 + 3) \div 4) * 4)
         IN  StripeLoop(Append(tasks,
                               [start |-> start, hh |-> hh,
                                dxt_offset |-> DxtOffset(start, blocks_per_row,
                                                         blocksize)]),
                        start + hh, height, stripe_height_px, blocks_per_row,
                        blocksize)
    ELSE tasks

StripeTasks(width, height, dxt_format, stripe_height_px) ==
    StripeLoop(<<>>, 0, height, StripeHeightPx(stripe_height_px), width \div 4,
               BlockSize(dxt_format))

StripeWidths == {4, 8, 12, 256}

StripeHeights == {4, 8, 12, 128, 132, 256, 260, 264}

StripeArgs == {-4, 0, 2, 4, 6, 8, 12, 128, 256}

StripeInit ==
    /\ dds_files = [p \in Paths |-> NoFile]
    /\ ddm_files = [p \in Paths |-> NoDdm]
    /\ entries = <<>>
    /\ current_size = 0
    /\ jpeg_cleanups = {}
    /\ enabled = TRUE
    /\ compression = "none"
    /\ cfg_format = "BC1"
    /\ cfg_compressor = "ISPC"
    /\ bundle = [r \in Rows |-> 0]
    /\ now = 1
    /\ stored = [p \in Paths |-> NotStored]
    /\ last = Last("init", <<>>, FALSE, <<>>, NotStored)
    /\ budget = NoBudget
    /\ \E width \in StripeWidths, height \in StripeHeights,
          dxt_format \in Formats, stripe_height_px \in StripeArgs :
          threads = [on |-> FALSE, width |-> width, height |-> height,
                     dxt_format |-> dxt_format,
                     stripe_height_px |-> stripe_height_px,
                     built |-> FALSE, tasks |-> <<>>]

\* compress_mipmap_to_bytes_parallel / compress_mipmap_via_global_pool up to
\* the pool.map call
BuildTasks ==
    /\ ~threads.built
    /\ threads.width % 4 = 0
    /\ threads.height % 4 = 0
    /\ threads' = [threads EXCEPT
                      !.built = TRUE,
                      !.tasks = StripeTasks(threads.width, threads.height,
                                            threads.dxt_format,
                                            threads.stripe_height_px)]
    /\ UNCHANGED <<cacheVars, budget>>

StripeNext == BuildTasks

SpecStripe == StripeInit /\ [][StripeNext]_vars

\* the bytes stripe task t writes: [dxt_offset, dxt_offset + its blocks)
StripeEnd(t, width, blocksize) ==
    t.dxt_offset + (t.hh \div 4) * (width \div 4) * blocksize

\* C33: for every width and height that are multiples of 4 and every stripe
\* height, the stripe tasks split the rows [0, height) into contiguous
\* disjoint stripes whose heights are multiples of 4, stripe s writes at byte
\* offset (start_row_s / 4) x (width / 4) x blocksize, and the stripes'
\* output byte ranges are pairwise disjoint and cover exactly
\* [0, (width x height / 16) x blocksize).
StripesPartition ==
    threads.built =>
        LET tasks     == threads.tasks
            n         == Len(tasks)
            width     == threads.width
            height    == threads.height
            blocksize == IF threads.dxt_format = "BC3" THEN 16 ELSE 8
        IN  /\ n > 0
            /\ tasks[1].start = 0
            /\ tasks[n].start + tasks[n].hh = height
            /\ \A s \in 1..n :
                  /\ tasks[s].hh > 0
                  /\ tasks[s].hh % 4 = 0
                  /\ tasks[s].dxt_offset
                        = (tasks[s].start \div 4) * (width \div 4) * blocksize
                  /\ s < n => tasks[s + 1].start = tasks[s].start + tasks[s].hh
                  /\ s < n => tasks[s + 1].dxt_offset
                                 = StripeEnd(tasks[s], width, blocksize)
            /\ tasks[1].dxt_offset = 0
            /\ StripeEnd(tasks[n], width, blocksize)
                  = ((width * height) \div 16) * blocksize

\* a 256 x 260 image and a stripe height of 6, which is replaced by the
\* default: stripes of 128, 128 and 4 rows
StripesPartitionWitness ==
    /\ threads.built
    /\ threads.width = 256
    /\ threads.height = 260
    /\ threads.stripe_height_px = 6
    /\ Len(threads.tasks) = 3
    /\ threads.tasks[3].hh = 4

\* ------------------------------------------------------------------------
\* parallel_compress: threads calling compress_mipmap_via_global_pool.
\* _ensure_pool tests and sets the module globals _JOBS_SEM and _POOL without
\* a lock (_POOL_LOCK is never taken); the caller then reads _JOBS_SEM to
\* acquire and reads it again to release.
\*   threads.jobs_sem, threads.pool: the globals, 0 for None, else the number
\*     of the semaphore / pool object
\*   threads.sems[i]: the counter of semaphore i; threads.pools: pools created
\*   threads.c[t]: caller t: pc, saw_none (what its `is None` test read),
\*     acquired / released (the semaphore object it acquired / released)
\* ------------------------------------------------------------------------

PoolCallers == {1, 2, 3}

MaxJobs == 1

CallerInit == [pc |-> "idle", saw_none |-> FALSE, acquired |-> 0, released |-> 0]

PoolInit ==
    /\ dds_files = [p \in Paths |-> NoFile]
    /\ ddm_files = [p \in Paths |-> NoDdm]
    /\ entries = <<>>
    /\ current_size = 0
    /\ jpeg_cleanups = {}
    /\ enabled = TRUE
    /\ compression = "none"
    /\ cfg_format = "BC1"
    /\ cfg_compressor = "ISPC"
    /\ bundle = [r \in Rows |-> 0]
    /\ now = 1
    /\ stored = [p \in Paths |-> NotStored]
    /\ last = Last("init", <<>>, FALSE, <<>>, NotStored)
    /\ budget = NoBudget
    /\ threads = [on |-> TRUE, jobs_sem |-> 0, pool |-> 0, sems |-> <<>>,
                  pools |-> 0, c |-> [t \in PoolCallers |-> CallerInit]]

PoolFrame == UNCHANGED <<cacheVars, budget>>

\* if _JOBS_SEM is None:
PlTestSem(t) ==
    /\ threads.c[t].pc = "idle"
    /\ threads' = [threads EXCEPT !.c[t].pc = "sem_tested",
                                  !.c[t].saw_none = threads.jobs_sem = 0]
    /\ PoolFrame

\* _globals['_JOBS_SEM'] = _th.Semaphore(max_jobs)
PlSetSem(t) ==
    /\ threads.c[t].pc = "sem_tested"
    /\ threads' = IF threads.c[t].saw_none
                  THEN [threads EXCEPT !.c[t].pc = "sem_set",
                                       !.sems = Append(@, MaxJobs),
                                       !.jobs_sem = Len(threads.sems) + 1]
                  ELSE [threads EXCEPT !.c[t].pc = "sem_set"]
    /\ PoolFrame

\* if _POOL is None:
PlTestPool(t) ==
    /\ threads.c[t].pc = "sem_set"
    /\ threads' = [threads EXCEPT !.c[t].pc = "pool_tested",
                                  !.c[t].saw_none = threads.pool = 0]
    /\ PoolFrame

\* pool = ctx.Pool(processes=workers); _globals['_POOL'] = pool
PlSetPool(t) ==
    /\ threads.c[t].pc = "pool_tested"
    /\ threads' = IF threads.c[t].saw_none
                  THEN [threads EXCEPT !.c[t].pc = "ensured",
                                       !.pools = @ + 1,
                                       !.pool = threads.pools + 1]
                  ELSE [threads EXCEPT !.c[t].pc = "ensured"]
    /\ PoolFrame

\* _JOBS_SEM.acquire(): blocks while the counter of the semaphore the global
\* names now is 0
PlAcquire(t) ==
    /\ threads.c[t].pc = "ensured"
    /\ threads.sems[threads.jobs_sem] > 0
    /\ threads' = [threads EXCEPT !.c[t].pc = "job",
                                  !.c[t].acquired = threads.jobs_sem,
                                  !.sems[threads.jobs_sem] = @ - 1]
    /\ PoolFrame

\* the body of the try block: the stripes are mapped over the pool, or an
\* exception is raised; both ways lead to the finally clause
PlJob(t, raises) ==
    /\ threads.c[t].pc = "job"
    /\ raises \in BOOLEAN
    /\ threads' = [threads EXCEPT !.c[t].pc = "finally"]
    /\ PoolFrame

\* finally: _JOBS_SEM.release()
PlRelease(t) ==
    /\ threads.c[t].pc = "finally"
    /\ threads' = [threads EXCEPT !.c[t].pc = "done",
                                  !.c[t].released = threads.jobs_sem,
                                  !.sems[threads.jobs_sem] = @ + 1]
    /\ PoolFrame

PoolNext ==
    \E t \in PoolCallers :
        \/ PlTestSem(t)
        \/ PlSetSem(t)
        \/ PlTestPool(t)
        \/ PlSetPool(t)
        \/ PlAcquire(t)
        \/ \E raises \in BOOLEAN : PlJob(t, raises)
        \/ PlRelease(t)

SpecPool == PoolInit /\ [][PoolNext]_vars

\* the callers between the semaphore acquire and its release
InJob == {t \in PoolCallers : threads.c[t].pc \in {"job", "finally"}}

\* C34: with any number of threads calling compress_mipmap_via_global_pool
\* concurrently, including the first calls that lazily create the pool and
\* the semaphore, at most max_jobs callers are between the semaphore acquire
\* and release at any time, every caller releases the slot it acquired, and
\* exactly one pool is created.
PoolSlotsRespected ==
    /\ Cardinality(InJob) <= MaxJobs
    /\ \A t \in PoolCallers :
          threads.c[t].pc = "done"
              => threads.c[t].released = threads.c[t].acquired
    /\ threads.pools <= 1

\* ------------------------------------------------------------------------
\* Specification: one thread for each kind of call on the LRU map, every
\* section under self._lock one step, every file operation outside the lock
\* a step of its own.  The process has just started on the disk a prior
\* session left; scan_existing is its startup thread.
\* threads.st: a store, store_from_file or store_incremental (the three end
\* in the same locked section); ld: a load; inv: an invalidate; ev: an
\* evict_lru; sc: scan_existing; mg: an upgrade_zl or downgrade_zl
\* ------------------------------------------------------------------------

LockRows == {21728, 21729}

LockEvictSizes == {1, 200}

LockTile(row) == Tile(row, 16, "BC1")

LockPath(row) == PathOf(LockTile(row), 16)

LockKey(row) == _tile_key(TileId(row), 16)

LockBytes == PatternBytes(LockTile(21728).dds, 16)

\* <<old_max_zoom, new_max_zoom>> of the migration thread
LockSteps == {<<16, 17>>, <<16, 15>>}

LockThreads ==
    [on  |-> TRUE,
     st  |-> [pc |-> "idle", row |-> 0, size |-> 0, missing |-> <<>>],
     ld  |-> [pc |-> "idle", row |-> 0, len |-> 0],
     inv |-> [pc |-> "idle", path |-> <<>>],
     ev  |-> [pc |-> "idle", to_delete |-> <<>>],
     sc  |-> [pc |-> "idle", files |-> <<>>, count |-> 0],
     mg  |-> [pc |-> "idle", old_path |-> <<>>, old_key |-> <<>>]]

LockInit ==
    /\ compression = "none"
    /\ dds_files = PriorSession(2, compression).dds
    /\ ddm_files = PriorSession(2, compression).ddm
    /\ entries = <<>>
    /\ current_size = 0
    /\ jpeg_cleanups = {}
    /\ enabled = TRUE
    /\ cfg_format = "BC1"
    /\ cfg_compressor = "ISPC"
    /\ bundle = [r \in Rows |-> 0]
    /\ now = 3
    /\ stored = [p \in Paths |-> NotStored]
    /\ last = Last("init", <<>>, FALSE, <<>>, NotStored)
    /\ threads = LockThreads
    /\ budget = NoBudget

LockFrame ==
    UNCHANGED <<enabled, compression, cfg_format, cfg_compressor, bundle,
                stored, last, budget>>

\* ---- store ----

\* the temp files and the two os.replace calls
LkStWrite(row, mm0_missing_indices) ==
    /\ threads.st.pc = "idle"
    /\ LET r == store(W, Cfg, now, TileId(row), 16, LockBytes,
                      LockTile(row), FALSE, mm0_missing_indices, "none").w
       IN  /\ dds_files' = r.dds
           /\ ddm_files' = r.ddm
           /\ threads' = [threads EXCEPT !.st =
                             [pc |-> "lru", row |-> row,
                              size |-> Len(r.dds[LockPath(row)].data),
                              missing |-> mm0_missing_indices]]
    /\ UNCHANGED <<entries, current_size, jpeg_cleanups, now>>
    /\ LockFrame

\* with self._lock: the old size out, the new entry in; then the cleanup
LkStLru ==
    /\ threads.st.pc = "lru"
    /\ LET row == threads.st.row
           w1  == LruStore(W, LockKey(row), LockPath(row), threads.st.size, now)
       IN  SetW(IF threads.st.missing = <<>>
                THEN _cleanup_jpegs_async(w1, LockTile(row)) ELSE w1)
    /\ threads' = [threads EXCEPT !.st.pc = "done"]
    /\ now' = now + 1
    /\ LockFrame

\* ---- load ----

\* the DDM and DDS reads, the checks, _delete_pair on a bad pair
LkLdRead(row) ==
    /\ threads.ld.pc = "idle"
    /\ LET r == load(W, Cfg, now, TileId(row), 16, LockTile(row))
       IN  IF r.hit
           THEN /\ threads' = [threads EXCEPT !.ld =
                                  [pc |-> "touch", row |-> row,
                                   len |-> Len(r.data)]]
                /\ UNCHANGED <<dds_files, ddm_files>>
           ELSE /\ dds_files' = r.w.dds
                /\ ddm_files' = r.w.ddm
                /\ threads' = [threads EXCEPT !.ld.pc = "done"]
    /\ UNCHANGED <<entries, current_size, jpeg_cleanups, now>>
    /\ LockFrame

\* with self._lock: move_to_end of a tracked key, else a new entry
LkLdTouch ==
    /\ threads.ld.pc = "touch"
    /\ LET row == threads.ld.row
       IN  SetW(LruTouch(W, LockKey(row), LockPath(row), threads.ld.len, now))
    /\ threads' = [threads EXCEPT !.ld.pc = "done"]
    /\ now' = now + 1
    /\ LockFrame

\* ---- invalidate ----

\* with self._lock: entry = self._entries.pop(key, None)
LkInvPop(row) ==
    /\ threads.inv.pc = "idle"
    /\ IF HasKey(entries, LockKey(row))
       THEN LET entry == entries[IndexOf(entries, LockKey(row))]
            IN  /\ entries' = RemoveKey(entries, LockKey(row))
                /\ current_size' = current_size - entry.size
                /\ threads' = [threads EXCEPT !.inv =
                                  [pc |-> "unlink", path |-> entry.path]]
       ELSE /\ threads' = [threads EXCEPT !.inv.pc = "done"]
            /\ UNCHANGED <<entries, current_size>>
    /\ UNCHANGED <<dds_files, ddm_files, jpeg_cleanups, now>>
    /\ LockFrame

\* _delete_pair outside the lock
LkInvUnlink ==
    /\ threads.inv.pc = "unlink"
    /\ SetW(_delete_pair(W, threads.inv.path, threads.inv.path))
    /\ threads' = [threads EXCEPT !.inv.pc = "done"]
    /\ UNCHANGED now
    /\ LockFrame

\* ---- evict_lru ----

\* with self._lock: popitem(last=False) until enough is freed
LkEvPop(bytes_to_free) ==
    /\ threads.ev.pc = "idle"
    /\ LET r == EvictLoop(entries, current_size, 0, <<>>, bytes_to_free)
       IN  /\ entries' = r.entries
           /\ current_size' = r.current_size
           /\ threads' = [threads EXCEPT !.ev =
                             [pc |-> "unlink", to_delete |-> r.to_delete]]
    /\ UNCHANGED <<dds_files, ddm_files, jpeg_cleanups, now>>
    /\ LockFrame

\* one round of `for dds_path, ddm_path in to_delete`, outside the lock
LkEvUnlink ==
    /\ threads.ev.pc = "unlink"
    /\ IF threads.ev.to_delete = <<>>
       THEN /\ threads' = [threads EXCEPT !.ev.pc = "done"]
            /\ UNCHANGED <<dds_files, ddm_files, entries, current_size,
                           jpeg_cleanups>>
       ELSE /\ SetW(_delete_pair(W, threads.ev.to_delete[1],
                                 threads.ev.to_delete[1]))
            /\ threads' = [threads EXCEPT !.ev.to_delete = Tail(@)]
    /\ UNCHANGED now
    /\ LockFrame

\* ---- scan_existing ----

\* os.walk lists the .dds files of the cache root
LkScBegin ==
    /\ threads.sc.pc = "idle"
    /\ threads' = [threads EXCEPT !.sc =
                      [pc |-> "walk",
                       files |-> PathSeq({p \in Paths : dds_files[p].exists}),
                       count |-> 0]]
    /\ UNCHANGED <<cacheVars>>
    /\ UNCHANGED budget

\* one file of the walk: its checks, its size and mtime, its locked insert
LkScFile ==
    /\ threads.sc.pc = "walk"
    /\ threads.sc.files # <<>>
    /\ LET r == ScanFile(W, threads.sc.count, Head(threads.sc.files))
       IN  /\ SetW(r.w)
           /\ threads' = [threads EXCEPT !.sc.files = Tail(@),
                                         !.sc.count = r.count]
    /\ UNCHANGED now
    /\ LockFrame

\* `if count > 0`: with self._lock, the map rebuilt in atime order
LkScSort ==
    /\ threads.sc.pc = "walk"
    /\ threads.sc.files = <<>>
    /\ entries' = IF threads.sc.count > 0 THEN SortByAtime(entries) ELSE entries
    /\ threads' = [threads EXCEPT !.sc.pc = "done"]
    /\ UNCHANGED <<dds_files, ddm_files, current_size, jpeg_cleanups, now>>
    /\ LockFrame

\* ---- upgrade_zl / downgrade_zl ----

\* the old pair read, the new image built, self.store(...) of the new pair
LkMgStore(row, old_max_zoom, new_max_zoom) ==
    /\ threads.mg.pc = "idle"
    /\ LET tile == Tile(row, new_max_zoom, "BC1")
           old_path == PathOf(tile, old_max_zoom)
           r == IF new_max_zoom > old_max_zoom
                THEN upgrade_zl(W, Cfg, now, tile.id, old_max_zoom,
                                new_max_zoom, NewMm0(tile), tile, "none")
                ELSE downgrade_zl(W, Cfg, now, tile.id, old_max_zoom,
                                  new_max_zoom, tile, "none")
       IN  IF r.ok
           THEN /\ SetW(store(W, Cfg, now, tile.id, new_max_zoom, r.data, tile,
                              FALSE, <<>>, "none").w)
                /\ threads' = [threads EXCEPT !.mg =
                                  [pc |-> "unlink", old_path |-> old_path,
                                   old_key |-> _tile_key(tile.id, old_max_zoom)]]
           ELSE /\ SetW(r.w)
                /\ threads' = [threads EXCEPT !.mg.pc = "done"]
    /\ now' = now + 1
    /\ LockFrame

\* self._delete_pair(old_dds_path, old_ddm_path)
LkMgUnlink ==
    /\ threads.mg.pc = "unlink"
    /\ SetW(_delete_pair(W, threads.mg.old_path, threads.mg.old_path))
    /\ threads' = [threads EXCEPT !.mg.pc = "drop"]
    /\ UNCHANGED now
    /\ LockFrame

\* with self._lock: the old key dropped, its size subtracted
LkMgDrop ==
    /\ threads.mg.pc = "drop"
    /\ LET old_key == threads.mg.old_key
       IN  IF HasKey(entries, old_key)
           THEN /\ entries' = RemoveKey(entries, old_key)
                /\ current_size' = current_size
                                      - entries[IndexOf(entries, old_key)].size
           ELSE UNCHANGED <<entries, current_size>>
    /\ threads' = [threads EXCEPT !.mg.pc = "done"]
    /\ UNCHANGED <<dds_files, ddm_files, jpeg_cleanups, now>>
    /\ LockFrame

LockNext ==
    \/ \E row \in LockRows : LkStWrite(row, <<>>)
    \/ LkStLru
    \/ \E row \in LockRows : LkLdRead(row)
    \/ LkLdTouch
    \/ \E row \in LockRows : LkInvPop(row)
    \/ LkInvUnlink
    \/ \E n \in LockEvictSizes : LkEvPop(n)
    \/ LkEvUnlink
    \/ LkScBegin
    \/ LkScFile
    \/ LkScSort
    \/ \E s \in LockSteps : LkMgStore(21728, s[1], s[2])
    \/ LkMgUnlink
    \/ LkMgDrop

SpecLock == LockInit /\ [][LockNext]_vars

\* C35: under any interleaving of store, store_from_file, store_incremental,
\* load, invalidate, evict_lru, scan_existing, upgrade_zl and downgrade_zl
\* threads, self._current_size equals the sum of the sizes recorded in the
\* LRU entries and is never negative.
UsageIsSumOfEntries ==
    /\ current_size = SumSizes(entries)
    /\ current_size >= 0

\* a load has touched a key that other threads had tracked, after an
\* eviction and a migration changed the map
UsageIsSumOfEntriesWitness ==
    /\ threads.on
    /\ threads.ld.pc = "done"
    /\ threads.st.pc = "done"
    /\ threads.ev.pc = "done"
    /\ threads.mg.pc = "done"
    /\ threads.sc.pc = "done"
    /\ Len(entries) >= 2
    /\ \E i \in 1..Len(entries) :
          /\ entries[i].key = LockKey(threads.ld.row)
          /\ entries[i].atime > 3
    /\ current_size > 0

\* C36: whenever evict_lru can take the LRU lock (in every state: each
\* locked section is one step), the LRU map is ordered by non-decreasing
\* last-access time, also while scan_existing is still walking the cache
\* and store and load run beside it.
MapOrderedWhenLockFree ==
    \A i \in 1..(Len(entries) - 1) : entries[i].atime <= entries[i + 1].atime

\* no call is between two of its steps
LockQuiescent ==
    /\ threads.on
    /\ \A t \in {"st", "ld", "inv", "ev", "sc", "mg"} :
          threads[t].pc \in {"idle", "done"}

\* C37: in every quiescent state every tracked key has its .dds and its
\* .ddm on disk: a load that deletes a bad pair leaves no entry for it, and
\* the files evict_lru and invalidate delete after releasing the lock are
\* never those a store of the same key wrote in between.
TrackedKeysHaveFiles ==
    LockQuiescent
        => \A i \in 1..Len(entries) :
              /\ dds_files[entries[i].path].exists
              /\ ddm_files[entries[i].path].exists

\* ------------------------------------------------------------------------
\* Specification: DiskBudgetManager's usage counters under concurrent calls.
\* budget: the manager (cpc: the thread in check_and_evict, spc: the thread
\* in scan_disk_usage, tpc: the thread in cleanup_stale_dds, report and freed
\* their locals); threads: what lies on disk beside the DDS cache (jpegs:
\* loose JPEG files, bundle_bytes: the size of the bundles directory);
\* bundle[row] = 0: the tile's bundle file does not exist
\* ------------------------------------------------------------------------

UsageMaxCalls == 3

\* sizes passed to account_dds and account_bundle ("negative for removal")
SizeBytes == {-200, 300}

\* a loose JPEG's real size; cleanup_orphan_jpegs assumes 20 KB (here 20)
JpegSize == 30

JpegEstimate == 20

MaxJpegs == 2

JpegBudgetOf(total_budget, dds_budget_pct, bundle_budget_pct, jpeg_budget_pct) ==
    LET dds_pct    == Max(10, Min(60, dds_budget_pct))
        bundle_pct == Max(30, Min(80, bundle_budget_pct))
        jpeg_pct   == Max(1, Min(20, jpeg_budget_pct))
        total_pct  == dds_pct + bundle_pct + jpeg_pct
    IN  (total_budget * jpeg_pct) \div total_pct

UsageManager ==
    [on |-> TRUE,
     dds_budget |-> BudgetOf(TotalBudget, 40, 55, 5),
     jpeg_budget |-> JpegBudgetOf(TotalBudget, 40, 55, 5),
     dds_usage |-> 0, bundle_usage |-> 0, jpeg_usage |-> 0,
     cpc |-> "idle", freed |-> 0,
     spc |-> "idle", report |-> [dds |-> 0, bundle |-> 0, jpeg |-> 0],
     tpc |-> "idle", stale_freed |-> 0,
     calls |-> 0]

UsageInit ==
    /\ dds_files = [p \in Paths |-> NoFile]
    /\ ddm_files = [p \in Paths |-> NoDdm]
    /\ entries = <<>>
    /\ current_size = 0
    /\ jpeg_cleanups = {}
    /\ enabled = TRUE
    /\ compression = "none"
    /\ cfg_format = "BC1"
    /\ cfg_compressor = "ISPC"
    /\ \E b \in {0, 1} : bundle = [r \in Rows |-> IF r = 21728 THEN b ELSE 1]
    /\ now = 1
    /\ stored = [p \in Paths |-> NotStored]
    /\ last = Last("init", <<>>, FALSE, <<>>, NotStored)
    /\ threads = [on |-> TRUE, jpegs |-> MaxJpegs, bundle_bytes |-> 300]
    /\ budget = UsageManager

UsageFrame ==
    UNCHANGED <<enabled, compression, cfg_format, cfg_compressor, bundle,
                stored, last>>

\* the DDS cache stores a tile (the manager is not told)
UsStore(row) ==
    LET tile == Tile(row, 16, cfg_format)
        r    == store(W, Cfg, now, tile.id, 16, PatternBytes(tile.dds, 16),
                      tile, FALSE, <<>>, "none")
    IN  /\ budget.calls < UsageMaxCalls
        /\ SetW(r.w)
        /\ now' = now + 1
        /\ budget' = [budget EXCEPT !.calls = @ + 1]
        /\ UNCHANGED threads
        /\ UsageFrame

\* account_dds: the locked section (the eviction it may schedule is the
\* check_and_evict thread below)
account_dds(size_bytes) ==
    /\ budget.calls < UsageMaxCalls
    /\ budget' = [budget EXCEPT !.dds_usage = Max(0, @ + size_bytes),
                                !.calls = @ + 1]
    /\ UNCHANGED <<cacheVars, threads>>

account_bundle(size_bytes) ==
    /\ budget.calls < UsageMaxCalls
    /\ budget' = [budget EXCEPT !.bundle_usage = Max(0, @ + size_bytes),
                                !.calls = @ + 1]
    /\ UNCHANGED <<cacheVars, threads>>

\* cleanup_orphan_jpegs: `deleted` files gone, 20 KB taken off for each
OrphanCleanup(b, deleted) ==
    IF deleted > 0
    THEN [b EXCEPT !.jpeg_usage = Max(0, @ - deleted * JpegEstimate)]
    ELSE b

\* check_and_evict, first half: the unlocked test, evict_lru(excess)
UsCheckEvict ==
    /\ budget.cpc = "idle"
    /\ LET excess == budget.dds_usage - (budget.dds_budget * 9) \div 10
           r      == evict_lru(W, excess)
       IN  IF budget.dds_usage > budget.dds_budget /\ excess > 0
           THEN /\ SetW(r.w)
                /\ budget' = [budget EXCEPT !.cpc = "sub", !.freed = r.ret]
           ELSE /\ budget' = [budget EXCEPT !.cpc = "jpeg"]
                /\ UNCHANGED <<dds_files, ddm_files, entries, current_size,
                               jpeg_cleanups>>
    /\ UNCHANGED <<now, threads>>
    /\ UsageFrame

\* with self._lock: self._dds_usage -= freed
UsCheckSubtract ==
    /\ budget.cpc = "sub"
    /\ budget' = [budget EXCEPT !.dds_usage = @ - budget.freed, !.freed = 0,
                                !.cpc = "jpeg"]
    /\ UNCHANGED <<cacheVars, threads>>

\* check_and_evict, second half: over the JPEG budget -> cleanup_orphan_jpegs
UsCheckJpeg(deleted) ==
    /\ budget.cpc = "jpeg"
    /\ deleted <= threads.jpegs
    /\ IF budget.jpeg_usage > budget.jpeg_budget
       THEN /\ budget' = [OrphanCleanup(budget, deleted) EXCEPT !.cpc = "idle"]
            /\ threads' = [threads EXCEPT !.jpegs = @ - deleted]
       ELSE /\ deleted = 0
            /\ budget' = [budget EXCEPT !.cpc = "idle"]
            /\ UNCHANGED threads
    /\ UNCHANGED <<cacheVars>>

\* cleanup_orphan_jpegs called on its own
UsCleanupOrphanJpegs(deleted) ==
    /\ deleted <= threads.jpegs
    /\ deleted > 0
    /\ budget' = OrphanCleanup(budget, deleted)
    /\ threads' = [threads EXCEPT !.jpegs = @ - deleted]
    /\ UNCHANGED <<cacheVars>>

\* scan_disk_usage: the three directory walks fill the report
UsScanWalk ==
    /\ budget.spc = "idle"
    /\ budget' = [budget EXCEPT
                     !.spc = "set",
                     !.report = [dds |-> SumLen(dds_files,
                                            {p \in Paths : dds_files[p].exists}),
                                 bundle |-> threads.bundle_bytes,
                                 jpeg |-> threads.jpegs * JpegSize]]
    /\ UNCHANGED <<cacheVars, threads>>

\* with self._lock: the counters replaced by the report
UsScanSet ==
    /\ budget.spc = "set"
    /\ budget' = [budget EXCEPT !.spc = "idle",
                                !.dds_usage = budget.report.dds,
                                !.bundle_usage = budget.report.bundle,
                                !.jpeg_usage = budget.report.jpeg]
    /\ UNCHANGED <<cacheVars, threads>>

\* cleanup_stale_dds: the walk removes every pair whose bundle is gone
UsStaleWalk ==
    /\ budget.tpc = "idle"
    /\ LET gone == {p \in Paths :
                       /\ ddm_files[p].exists
                       /\ bundle[ddm_files[p].meta.tile_row] = 0}
       IN  /\ dds_files' = [p \in Paths |->
                               IF p \in gone THEN NoFile ELSE dds_files[p]]
           /\ ddm_files' = [p \in Paths |->
                               IF p \in gone THEN NoDdm ELSE ddm_files[p]]
           /\ budget' = [budget EXCEPT
                            !.tpc = "sub",
                            !.stale_freed = SumLen(dds_files,
                                {p \in gone : dds_files[p].exists})]
    /\ UNCHANGED <<entries, current_size, jpeg_cleanups, now, threads>>
    /\ UsageFrame

\* `if freed > 0`: with self._lock, subtract and clamp
UsStaleSubtract ==
    /\ budget.tpc = "sub"
    /\ budget' = [budget EXCEPT
                     !.tpc = "idle", !.stale_freed = 0,
                     !.dds_usage = IF budget.stale_freed > 0
                                   THEN Max(0, @ - budget.stale_freed) ELSE @]
    /\ UNCHANGED <<cacheVars, threads>>

UsageNext ==
    \/ \E row \in Rows : UsStore(row)
    \/ \E size_bytes \in SizeBytes : account_dds(size_bytes)
    \/ \E size_bytes \in SizeBytes : account_bundle(size_bytes)
    \/ UsCheckEvict
    \/ UsCheckSubtract
    \/ \E deleted \in 0..MaxJpegs : UsCheckJpeg(deleted)
    \/ \E deleted \in 0..MaxJpegs : UsCleanupOrphanJpegs(deleted)
    \/ UsScanWalk
    \/ UsScanSet
    \/ UsStaleWalk
    \/ UsStaleSubtract

SpecUsage == UsageInit /\ [][UsageNext]_vars

\* C38: under any interleaving of account_dds, account_bundle,
\* check_and_evict, scan_disk_usage, cleanup_stale_dds and
\* cleanup_orphan_jpegs, the tracked usage of each category is never
\* negative.
UsageNeverNegative ==
    budget.on
        => /\ budget.dds_usage >= 0
           /\ budget.bundle_usage >= 0
           /\ budget.jpeg_usage >= 0

\* ------------------------------------------------------------------------
\* Specification: two threads of one process in store for the same key.
\* Both use dds_path + ".tmp.<pid>".  threads.ino: the files the two calls
\* created (a file is the bytes an open descriptor writes to, whatever name
\* it has at the moment); tmp: the file now named <dds_path>.tmp.<pid>,
\* at_dds: the file now named dds_path (0: none); h[t]: the thread's
\* position, its disk_bytes, the file its descriptor is open on, its return
\* value
\* ------------------------------------------------------------------------

TmpWriters == {1, 2}

TmpTile == Tile(21728, 16, "BC1")

TmpPath == PathOf(TmpTile, 16)

TmpInit ==
    /\ dds_files = [p \in Paths |-> NoFile]
    /\ ddm_files = [p \in Paths |-> NoDdm]
    /\ entries = <<>>
    /\ current_size = 0
    /\ jpeg_cleanups = {}
    /\ enabled = TRUE
    /\ compression \in CompressionModes
    /\ cfg_format = "BC1"
    /\ cfg_compressor = "ISPC"
    /\ bundle = [r \in Rows |-> 0]
    /\ now = 1
    /\ stored = [p \in Paths |-> NotStored]
    /\ last = Last("init", <<>>, FALSE, <<>>, NotStored)
    /\ threads = [on |-> TRUE,
                  ino |-> [i \in TmpWriters |-> <<>>],
                  tmp |-> 0, at_dds |-> 0,
                  h |-> [t \in TmpWriters |->
                            [pc |-> "idle", dds_bytes |-> <<>>,
                             disk_bytes |-> <<>>, fd |-> 0, ret |-> FALSE]]]
    /\ budget = NoBudget

TmpFrame ==
    UNCHANGED <<enabled, compression, cfg_format, cfg_compressor, bundle,
                stored, last, budget>>

\* the file named dds_path, as the cache's other methods see it
AtDdsPath(ino, at_dds, mtime) ==
    IF at_dds = 0 THEN NoFile ELSE File(ino[at_dds], mtime)

\* open(tmp_dds, "wb"): creates the file, or truncates the one of that name
TmOpen(t, dds_bytes) ==
    /\ threads.h[t].pc = "idle"
    /\ LET fd  == IF threads.tmp = 0 THEN t ELSE threads.tmp
           ino == [threads.ino EXCEPT ![fd] = <<>>]
       IN  /\ threads' = [threads EXCEPT
                             !.ino = ino, !.tmp = fd,
                             !.h[t] = [pc |-> "open", dds_bytes |-> dds_bytes,
                                       disk_bytes |->
                                           DiskImage(Cfg, dds_bytes).disk_bytes,
                                       fd |-> fd, ret |-> FALSE]]
           /\ dds_files' = [dds_files EXCEPT ![TmpPath] =
                               AtDdsPath(ino, threads.at_dds, now)]
    /\ UNCHANGED <<ddm_files, entries, current_size, jpeg_cleanups, now>>
    /\ TmpFrame

\* f.write(disk_bytes) and the close: the bytes go to the open file from
\* offset 0
TmWrite(t) ==
    /\ threads.h[t].pc = "open"
    /\ LET fd  == threads.h[t].fd
           ino == [threads.ino EXCEPT ![fd] =
                      SeekWrite(@, 0, threads.h[t].disk_bytes)]
       IN  /\ threads' = [threads EXCEPT !.ino = ino, !.h[t].pc = "written"]
           /\ dds_files' = [dds_files EXCEPT ![TmpPath] =
                               AtDdsPath(ino, threads.at_dds, now)]
    /\ UNCHANGED <<ddm_files, entries, current_size, jpeg_cleanups, now>>
    /\ TmpFrame

\* os.replace(tmp_dds, dds_path); with no file of that name it raises, the
\* handler's os.remove finds nothing either, store returns False
TmReplace(t) ==
    /\ threads.h[t].pc = "written"
    /\ IF threads.tmp = 0
       THEN /\ threads' = [threads EXCEPT !.h[t].pc = "done"]
            /\ UNCHANGED dds_files
       ELSE /\ threads' = [threads EXCEPT !.at_dds = threads.tmp, !.tmp = 0,
                                          !.h[t].pc = "ddm"]
            /\ dds_files' = [dds_files EXCEPT ![TmpPath] =
                                AtDdsPath(threads.ino, threads.tmp, now)]
    /\ UNCHANGED <<ddm_files, entries, current_size, jpeg_cleanups, now>>
    /\ TmpFrame

\* _build_ddm, _write_ddm, the locked LRU section, the cleanup, return True
TmFinish(t) ==
    /\ threads.h[t].pc = "ddm"
    /\ LET fc   == _get_format_and_compressor(Cfg)
           meta == _build_ddm(TmpTile, 16, 0, fc.fmt, fc.comp, <<>>,
                              DiskImage(Cfg, threads.h[t].dds_bytes)
                                  .disk_compression, now)
           w1   == _write_ddm(W, TmpPath, meta)
           w2   == LruStore(w1, _tile_key(TmpTile.id, 16), TmpPath,
                            Len(threads.h[t].disk_bytes), now)
       IN  SetW(_cleanup_jpegs_async(w2, TmpTile))
    /\ threads' = [threads EXCEPT !.h[t].pc = "done", !.h[t].ret = TRUE]
    /\ now' = now + 1
    /\ TmpFrame

TmpNext ==
    \E t \in TmpWriters :
        \/ \E dds_bytes \in FullPayloads[16]["BC1"] : TmOpen(t, dds_bytes)
        \/ TmWrite(t)
        \/ TmReplace(t)
        \/ TmFinish(t)

SpecTmp == TmpInit /\ [][TmpNext]_vars

\* the disk images of the payloads the calls were given
WriterImages ==
    {threads.h[t].disk_bytes : t \in {u \in TmpWriters : threads.h[u].pc # "idle"}}

\* C39: two threads of one process storing to the same key share
\* <dds_path>.tmp.<pid>; even so the file at dds_path is always the complete
\* payload of one of the writers, and no temp file remains once both calls
\* have returned.
SharedTmpIsAtomic ==
    threads.on
        => /\ dds_files[TmpPath].exists
                 => dds_files[TmpPath].data \in WriterImages
           /\ (\A t \in TmpWriters : threads.h[t].pc = "done")
                 => threads.tmp = 0

\* C40: upgrade_zl and downgrade_zl never turn an incomplete artifact into
\* one recorded as complete: when the old DDM says needs_healing, the DDM of
\* the migrated pair does not say needs_healing = false with an empty
\* missing_indices, and the call schedules no deletion of the tile's source
\* JPEGs.
MigrationKeepsIncomplete ==
    (/\ last.op \in MigrationMethods
     /\ last.ok
     /\ last.pre.ddm[ApiPath(16)].exists
     /\ last.pre.ddm[ApiPath(16)].meta.needs_healing)
        => /\ ~(/\ ~ddm_files[last.path].meta.needs_healing
                /\ ddm_files[last.path].meta.missing_indices = <<>>)
           /\ jpeg_cleanups = last.pre.jpeg_cleanups
====
